---- MODULE Spec2Model ----
(***************************************************************************)
(* State-machine model of the RSI correlation pipeline:                    *)
(*   - the Orchestrator (crypto_analyzer.py) and its per-timeframe         *)
(*     AnalysisJob (analysis_job.py),                                      *)
(*   - the seed join and the aggregation of the job completions,           *)
(*   - the Database Manager's work queue and tables (database_manager.py). *)
(* Each subsystem has its own next-state relation over the shared          *)
(* variables: SpecJob, SpecSeed, SpecAgg, SpecDB.                          *)
(***************************************************************************)
EXTENDS Integers, Sequences, FiniteSets, Bags, TLC

(***************************************************************************)
(* Bounds of the model.                                                    *)
(***************************************************************************)
\* Capacity of the job's IdempotencyTracker, scaled down from maxlen=1000
\* (analysis_job.py:22) so that a job can hold more pairs than the tracker.
TrackerMaxLen == 1
\* How many times the bus may deliver a message it has already delivered.
MaxRedeliver == 1

None == "None"

(***************************************************************************)
(* Inputs.                                                                 *)
(***************************************************************************)
\* ("bitcoin", "btc"), the pair the Orchestrator requests for every timeframe.
BTC == <<"bitcoin", "btc">>
ETH == <<"ethereum", "eth">>
\* The (id, symbol) pairs a coin list can hold.
CoinPool == {BTC, ETH}
\* The retained coin lists (after the USDC filter) a session can dispatch:
\* with and without bitcoin itself, and with a pair listed twice.
CoinLists == {<<ETH>>, <<BTC, ETH>>, <<ETH, ETH>>}
\* A third pair, and the retained lists that hold more pairs than the
\* job's tracker has room for beside bitcoin.
SOL == <<"solana", "sol">>
WideCoinLists == {<<ETH, SOL>>}
AllCoins == CoinPool \cup {SOL}
\* The timeframe of the job under study (configuration.py:11, the default).
JobTimeframes == {"1d"}

\* prices_df_json of HistoricalPricesFetched: None, "", text that is not a
\* frame, a frame without rows, a frame without a close column, a proper frame.
PriceBodies == {None, "", "garbage", "emptyframe", "noclose", "frame"}
\* rsi_series_json of RSICalculated: None, text that is not a series, a series
\* without values, a rising series, a constant series.
RsiBodies == {None, "garbage", "emptyseries", "up", "flat"}

\* Write tasks a session enqueues on the Database Manager's queue.
MaxTasks == 3
\* Calls of analyze_correlation made on their own.
MaxCorrCalls == 2
\* Tasks enqueued on one worker's queue.
MaxPuts == 2
\* Messages the bus client receives.
MaxMessages == 2
\* Tasks the DataFetcher executes.
MaxFetchTasks == 2
\* The n of a top coins request.
MaxTopN == 3
\* The configured rsi_period, and the CalculateRSIRequested handled.
MaxRsiPeriod == 2
MaxRsiRequests == 3
\* WorkerFailed events published in a session.
MaxWorkerFailures == 2
\* The length of config.timeframes.
MaxTimeframes == 2
\* The results of a FinalResultsReady, and the FinalResultsReady of a session.
MaxResults == 3
MaxFinalResults == 1
\* Save calls made on the store of prices and RSI rows.
MaxSaves == 3
\* Calls of analyze_correlation after the low-cap threshold is computed.
MaxLowCapCalls == 2
\* Outcome events handed to the threads that run decrement_counter.
MaxDeliveries == 3

\* An Optional value: Nothing for Python's None, Some(x) for a value.
Nothing == <<>>
Some(x) == <<x>>

\* Markets of PrecisionDataFetched: symbol, base_asset, quote_asset.
Market(symbol, base, quote) ==
    [symbol |-> symbol, base_asset |-> base, quote_asset |-> quote]
ETHUSDC == Market("ETHUSDC", "ETH", "USDC")
BTCUSDC == Market("BTCUSDC", "BTC", "USDC")
ETHUSDT == Market("ETHUSDT", "ETH", "USDT")
\* The coin lists TopCoinsFetched can carry and the market lists
\* PrecisionDataFetched can carry, the empty ones included.
TopCoinSeeds == {<<>>, <<ETH>>, <<BTC, ETH>>, <<ETH, ETH>>}
PrecisionSeeds == {<<>>, <<ETHUSDT>>, <<ETHUSDC>>, <<ETHUSDC, BTCUSDC>>}
\* The threads on which the bus client runs the seed handlers.
SeedThreads == {"t1", "t2"}

\* config.timeframes of the session whose completions are aggregated
\* (main.py:24).
ConfigTimeframes == <<"1h", "1d">>

\* A row of a prices frame or of an RSI series handed to a write task: its
\* timestamp, its value, and what is wrong with it ("" for nothing, a
\* timestamp that cannot be converted, a value that is NaN).
FrameRow(ts, v, flaw) == [timestamp |-> ts, value |-> v, flaw |-> flaw]
\* The frames and series of the write tasks: empty, one row, two rows, a row
\* repeated, a row that cannot be converted, a NaN value first.
Frames ==
    { <<>>,
      <<FrameRow(1, 10, "")>>,
      <<FrameRow(1, 10, ""), FrameRow(2, 20, "")>>,
      <<FrameRow(2, 20, ""), FrameRow(2, 21, "")>>,
      <<FrameRow(1, 10, ""), FrameRow(3, 30, "badtimestamp")>>,
      <<FrameRow(1, 10, "nan"), FrameRow(2, 20, "")>> }
\* The workers that own a task queue and a loop thread
\* (crypto_analyzer.py:63-70).
WorkerNames == {"DatabaseManager", "RSICalculator", "DataFetcher"}
\* The threads that enqueue tasks: the bus client's and the main thread.
ProducerThreads == {"bus", "main"}

\* session_guid of the session.
SessionGuid == "s1"
TableNames == {"prices", "rsi"}

\* An event in flight: topic and payload fields (events.py).
Msg(topic, coin, tf, body) ==
    [topic |-> topic, coin |-> coin, tf |-> tf, body |-> body]

\* No event: the last step was not a delivery.
NoMsg == Msg(None, None, None, None)

VARIABLES
    \* per worker: the number of tasks put when stop() was called
    putsAtStop,
    \* decrement_counter run by the bus's threads on one job: where each
    \* thread is, the coin of the event it handles, the job's tracker, counter
    \* and _counter_lock, the decrements per coin, the AnalysisJobCompleted
    \* published and the events handed over.
    dec_pc, dec_event, dec_tracker, dec_counter, counter_lock, dec_count, dec_completed, dec_deliveries,
    \* The low-capitalisation flag: CryptoAnalyzer.market_caps and
    \* low_cap_threshold, the configured percentile, whether
    \* _start_analysis_if_ready has run, the results published by
    \* analyze_correlation and the number of its calls.
    market_caps, low_cap_threshold, lowcap_percentile, lowcap_started,
    lowcap_results, lowcap_calls,
    \* The store of prices and RSI rows as its callers use it: the queue of
    \* write tasks, the two tables, the save calls made (with the timeframe
    \* of the data handed over) and the number of tasks the loop has run.
    store_queue, store_tables, store_saves, store_done,
    \* --- AnalysisJob, one per timeframe (analysis_job.py:15-22)
    processing_counter,   \* _processing_counter
    btc_rsi,              \* btc_rsi
    coins_to_process,     \* coins_to_process
    idempotency_tracker,  \* _idempotency_tracker, oldest first
    \* --- CryptoAnalyzer (crypto_analyzer.py:50-61)
    rsi_results,          \* rsi_results: (coin, timeframe) -> series
    \* --- the bus: events published and not yet delivered
    bus,
    redelivered,          \* deliveries that left the message in flight
    delivered,            \* the event the last step handed to its subscriber
    \* --- what has been observed so far
    jobCompleted,         \* AnalysisJobCompleted published, per timeframe
    correlated,           \* coins with a CorrelationAnalyzed, per timeframe
    decrements,           \* counter decrements, per timeframe and coin
    dispatchCount,        \* runs of the dispatch loop (crypto_analyzer.py:170-187)
    fetchRequests,        \* FetchHistoricalPricesRequested published, in order
    \* --- the seed join (crypto_analyzer.py:50-51, 61, 108-193)
    coins,                \* coins: Optional list of (id, symbol)
    precision_data,       \* precision_data: Optional set of markets
    initial_data_loaded,  \* _initial_data_loaded
    processing_completed, \* _processing_completed
    topCoinsFetched,      \* payloads of TopCoinsFetched in flight
    precisionDataFetched, \* payloads of PrecisionDataFetched in flight
    seedPc,               \* per thread: where it is in its seed handler
    seedsReceived,        \* the seed topics a handler has been started for
    seedsRequested,       \* the seed requests the DataFetcher has answered
    \* --- the aggregation (crypto_analyzer.py:55, 59-60, 340-365)
    job_completion_counter, \* _job_completion_counter
    results,              \* results, in arrival order
    aggBus,               \* CorrelationAnalyzed / AnalysisJobCompleted in flight
    completedJobs,        \* timeframes whose job has published its completion
    completionsHandled,   \* AnalysisJobCompleted events handled
    finalResultsReady,    \* the results of each FinalResultsReady published
    \* --- the Database Manager (database_manager.py:17-24, 72-108)
    work_queue,           \* work_queue, oldest task first
    db_running,           \* _running
    dbPc,                 \* where the loop thread is in run()
    conn,                 \* the SQLite connection: "open" or "closed"
    tables,               \* the prices and rsi tables
    stopPc,               \* where the Orchestrator is in its shutdown
    tasksEnqueued,        \* write tasks enqueued so far
    executedTasks,        \* the write tasks the loop has executed
    tasksExecuted,        \* how many tasks the loop has executed
    connAccess,           \* who has used the connection or its cursor, and how
    \* --- analyze_correlation called on its own (crypto_analyzer.py:310-338)
    corr_call,            \* the arguments of the last call
    corr_published,       \* the CorrelationAnalyzed events published, in order
    corr_calls,           \* calls made so far
    \* --- the workers' loops (database_manager.py:72-108,
    \*     rsi_calculator.py:50-70)
    queues,               \* per worker: work_queue, oldest task first
    running,              \* per worker: _running
    loopPc,               \* per worker: where its loop thread is
    current,              \* per worker: the tasks being executed
    executed,             \* per worker: the tasks executed, in order
    puts,                 \* per worker: tasks enqueued so far
    stopping,              \* per worker: where a caller of stop() is
    \* --- the service bus (service_bus.py:50-130)
    inbox,                \* messages the client has received, oldest first
    received,             \* messages received so far
    cursor,               \* the handler of the topic the client calls next
    invoked,              \* calls of subscribers: handler, message, raised
    escaped,              \* exceptions that left an _internal_handler
    logged,               \* what logger.warning / logger.error reported
    dispatched,           \* messages the client has offered to every handler
    clientAlive,          \* the client still listens
    \* --- the DataFetcher's tasks (data_fetcher.py:47-118)
    df_task,              \* the task the worker is executing, if any
    df_markets,           \* binance.markets: Optional set of symbols
    df_prices_published,  \* HistoricalPricesFetched published, in order
    df_top_published,     \* TopCoinsFetched published, in order
    df_ohlcv_calls,       \* calls of binance.fetch_ohlcv
    df_raised,            \* exceptions that left a task
    df_last,              \* the last attempt: what the remote calls did
    df_tasks,             \* tasks started so far
    \* --- the RSICalculator's task (rsi_calculator.py:32-125)
    rsi_periods,          \* self.periods: Optional period
    rsi_queue,            \* work_queue: the _calculate_rsi_task tasks
    rsi_published,        \* RSICalculated published, in order
    rsi_log,              \* per executed task: the period and the data it saw
    rsi_requests,         \* CalculateRSIRequested handled so far
    \* --- worker failures (crypto_analyzer.py:367-379)
    wf_pending,           \* WorkerFailed events published and not yet handled
    wf_published,         \* WorkerFailed events published so far
    wf_handled,           \* per WorkerFailed handled: the Orchestrator's state then
    mainPc,               \* the main thread: waiting, or in shutdown
    \* --- the program (main.py:10-38, crypto_analyzer.py:36-83)
    main_pc,              \* where the main program is
    main_config,          \* the arguments of AnalysisConfig(...), once given
    exit_code,            \* the exit code of the process, once it has exited
    created,              \* the components constructed so far
    main_published,       \* the events published so far, in order
    analysis_jobs,        \* the keys of CryptoAnalyzer.analysis_jobs
    main_counter,         \* CryptoAnalyzer._job_completion_counter
    worker_failed,        \* a worker has signalled WorkerFailed
    \* --- the DisplayAgent (display_agent.py:47-80)
    disp_queue,           \* the _display_results_and_publish tasks, oldest first
    disp_consumed,        \* FinalResultsReady handled so far
    disp_displayed,       \* the last executed task: its results and the rows printed
    disp_session,         \* the agent's session_guid
    disp_completed        \* DisplayCompleted published so far

jobVars == <<processing_counter, btc_rsi, coins_to_process, idempotency_tracker,
             rsi_results, bus, redelivered, delivered, jobCompleted, correlated, decrements,
             dispatchCount, fetchRequests>>

seedVars == <<coins, precision_data, initial_data_loaded, processing_completed,
              topCoinsFetched, precisionDataFetched, seedPc, seedsReceived,
              seedsRequested>>

aggVars == <<job_completion_counter, results, aggBus, completedJobs,
             completionsHandled, finalResultsReady>>

dbVars == <<work_queue, db_running, dbPc, conn, tables, stopPc, tasksEnqueued,
            executedTasks, tasksExecuted, connAccess>>

corrVars == <<corr_call, corr_published, corr_calls>>

\* The variables of the components modelled after the Database Manager.
workerVars == <<queues, running, loopPc, current, executed, puts, stopping,
                putsAtStop>>

busVars == <<inbox, received, cursor, invoked, escaped, logged, dispatched,
             clientAlive>>

fetchVars == <<df_task, df_markets, df_prices_published, df_top_published,
               df_ohlcv_calls, df_raised, df_last, df_tasks>>

rsiVars == <<rsi_periods, rsi_queue, rsi_published, rsi_log, rsi_requests>>

failVars == <<wf_pending, wf_published, wf_handled, mainPc>>

mainVars == <<main_pc, main_config, exit_code, created, main_published,
              analysis_jobs, main_counter, worker_failed>>

dispVars == <<disp_queue, disp_consumed, disp_displayed, disp_session, disp_completed>>

storeVars == <<store_queue, store_tables, store_saves, store_done>>

lowcapVars == <<market_caps, low_cap_threshold, lowcap_percentile, lowcap_started,
                lowcap_results, lowcap_calls>>

decVars == <<dec_pc, dec_event, dec_tracker, dec_counter, counter_lock, dec_count, dec_completed, dec_deliveries>>

extVars == <<corrVars, workerVars, busVars, fetchVars, rsiVars, failVars, mainVars, dispVars, storeVars, lowcapVars, decVars>>

vars == <<jobVars, seedVars, aggVars, dbVars, extVars>>

(***************************************************************************)
(* Helpers.                                                                *)
(***************************************************************************)
Range(s) == {s[i] : i \in 1..Len(s)}

RECURSIVE SumOver(_, _)
SumOver(S, f) ==
    IF S = {} THEN 0
    ELSE LET x == CHOOSE y \in S : TRUE IN f[x] + SumOver(S \ {x}, f)

RECURSIVE BagOfSeq(_)
BagOfSeq(s) ==
    IF s = <<>> THEN EmptyBag ELSE SetToBag({Head(s)}) (+) BagOfSeq(Tail(s))

\* symbol.lower() == "btc"
IsBtcSymbol(coin) == coin[2] = "btc"

(***************************************************************************)
(* RSI series and the correlation test (crypto_analyzer.py:310-338).       *)
(***************************************************************************)
\* The analysis configuration of the model's session (configuration.py:6-13):
\* rsi_period > 1, correlation_threshold = num/den in [0, 1].
config == [rsi_period |-> 2, threshold_num |-> 7, threshold_den |-> 10]

\* The series an rsi_series_json body deserialises to: timestamp -> value.
SeriesOf(body) ==
    CASE body = "up"   -> (1 :> 3) @@ (2 :> 5) @@ (3 :> 7)
      [] body = "flat" -> (1 :> 5) @@ (2 :> 5) @@ (3 :> 5)
      [] body = "down" -> (1 :> 7) @@ (2 :> 5) @@ (3 :> 3)
      [] body = "late" -> (3 :> 6) @@ (4 :> 4)
      [] body = "shifted" -> (2 :> 4) @@ (3 :> 6) @@ (4 :> 2)
      [] body = "noisy" -> (1 :> 3) @@ (2 :> 7) @@ (3 :> 4)
      [] body = "short" -> (1 :> 5)
      [] OTHER         -> <<>>

\* A correlation test that lets a correlation that is not a number through.
analyze_correlation_NaNPasses(coin_rsi, btc) ==
    LET x   == SeriesOf(coin_rsi)
        y   == SeriesOf(btc)
        I   == DOMAIN x \cap DOMAIN y
        n   == Cardinality(I)
        cov == n * SumOver(I, [t \in I |-> x[t] * y[t]]) - SumOver(I, x) * SumOver(I, y)
        vx  == n * SumOver(I, [t \in I |-> x[t] * x[t]]) - SumOver(I, x) * SumOver(I, x)
        vy  == n * SumOver(I, [t \in I |-> y[t] * y[t]]) - SumOver(I, y) * SumOver(I, y)
    IN  /\ n >= config.rsi_period
        /\ cov * cov * config.threshold_den * config.threshold_den
              >= config.threshold_num * config.threshold_num * vx * vy

\* analyze_correlation publishes a CorrelationAnalyzed: at least rsi_period
\* common timestamps, a correlation that is not NaN (neither series constant
\* on the common index) and |rho| >= threshold, i.e.
\* cov^2 * den^2 >= num^2 * var_x * var_y.
analyze_correlation(coin_rsi, btc) ==
    LET x   == SeriesOf(coin_rsi)
        y   == SeriesOf(btc)
        I   == DOMAIN x \cap DOMAIN y
        n   == Cardinality(I)
        sx  == SumOver(I, x)
        sy  == SumOver(I, y)
        sxx == SumOver(I, [t \in I |-> x[t] * x[t]])
        syy == SumOver(I, [t \in I |-> y[t] * y[t]])
        sxy == SumOver(I, [t \in I |-> x[t] * y[t]])
        cov == n * sxy - sx * sy
        vx  == n * sxx - sx * sx
        vy  == n * syy - sy * sy
    IN  /\ n >= config.rsi_period
        /\ vx # 0 /\ vy # 0
        /\ cov * cov * config.threshold_den * config.threshold_den
              >= config.threshold_num * config.threshold_num * vx * vy

\* The RSI series analyze_correlation is called with: rising, constant,
\* falling, overlapping the others on one or two timestamps, weakly
\* correlated, a single value.
CorrSeries == {"up", "flat", "down", "late", "shifted", "noisy", "short"}

\* A call of analyze_correlation (crypto_analyzer.py:310-338) and the
\* CorrelationAnalyzed it publishes, if any.
AnalyzeCorrelation ==
    /\ corr_calls < MaxCorrCalls
    /\ \E coin \in CoinPool \ {BTC}, coin_rsi \in CorrSeries, btc \in CorrSeries,
          tf \in JobTimeframes :
          /\ corr_call' = Some([coin |-> coin, coin_rsi |-> coin_rsi,
                                btc_rsi |-> btc, timeframe |-> tf])
          /\ corr_published' =
                IF analyze_correlation(coin_rsi, btc)
                THEN Append(corr_published, [coin |-> coin, timeframe |-> tf])
                ELSE corr_published
    /\ corr_calls' = corr_calls + 1
    /\ UNCHANGED <<jobVars, seedVars, aggVars, dbVars, decVars, lowcapVars, storeVars, dispVars, mainVars, failVars, rsiVars, workerVars, busVars, fetchVars>>

(***************************************************************************)
(* IdempotencyTracker (python_pubsub_client, used at analysis_job.py:22,   *)
(* 45, 52): a bounded set of fingerprints that forgets the oldest one.     *)
(***************************************************************************)
\* event_data of decrement_counter (analysis_job.py:37-41).
Fingerprint(tf, coin) == <<tf, coin, "decrement">>

is_duplicate(tracker, fp) == fp \in Range(tracker)

mark_processed(tracker, fp) ==
    IF Len(tracker) >= TrackerMaxLen
    THEN Append(Tail(tracker), fp)
    ELSE Append(tracker, fp)

(***************************************************************************)
(* AnalysisJob (analysis_job.py).                                          *)
(***************************************************************************)
\* set_coins_to_process keeps the coins whose symbol is not btc.
set_coins_to_process(coin_list) == SelectSeq(coin_list, LAMBDA c : ~IsBtcSymbol(c))

\* The coins start_correlation_analysis publishes a CorrelationAnalyzed for,
\* `raising` being the coins whose analysis raises (caught per coin, line 85).
\* With btc_rsi missing the pass is skipped (lines 68-74).
CorrelationPass(tf, btc, coin_list, rsis, raising) ==
    IF btc = None THEN {}
    ELSE {c \in Range(coin_list) \ raising :
             /\ rsis[<<c, tf>>] # None
             /\ analyze_correlation(rsis[<<c, tf>>], btc)}

\* A pass that returns on a missing btc_rsi without publishing.
CompletionsPerPass_SilentReturn(btc) == IF btc = None THEN 0 ELSE 1

\* AnalysisJobCompleted events one run of start_correlation_analysis publishes:
\* one on the degraded path (line 72), one after the pass (line 92), one from
\* the handler of a critical error (line 98).
CompletionsPerPass(btc) == IF btc = None THEN 1 ELSE 1

\* start_correlation_analysis, run with the counter lock held.
StartCorrelationAnalysis(tf, btc, rsis) ==
    \E raising \in SUBSET Range(coins_to_process[tf]) :
        /\ correlated' = [correlated EXCEPT ![tf] =
              @ \cup CorrelationPass(tf, btc, coins_to_process[tf], rsis, raising)]
        /\ jobCompleted' = [jobCompleted EXCEPT ![tf] = @ + CompletionsPerPass(btc)]

\* The counter at which the job runs its correlation pass (line 58).
CounterExhausted(counter) == counter <= 0

\* decrement_counter(coin_id_symbol) of job tf; btc and results are the
\* job's btc_rsi and the analyzer's rsi_results as the caller left them.
DecrementCounter(tf, coin, btc, rsis) ==
    LET fp == Fingerprint(tf, coin) IN
    IF is_duplicate(idempotency_tracker[tf], fp)
    THEN UNCHANGED <<idempotency_tracker, processing_counter, decrements,
                     correlated, jobCompleted>>
    ELSE /\ idempotency_tracker' =
               [idempotency_tracker EXCEPT ![tf] = mark_processed(@, fp)]
         /\ processing_counter' = [processing_counter EXCEPT ![tf] = @ - 1]
         /\ decrements' = [decrements EXCEPT ![tf][coin] = @ + 1]
         /\ IF CounterExhausted(processing_counter[tf] - 1)
            THEN StartCorrelationAnalysis(tf, btc, rsis)
            ELSE UNCHANGED <<correlated, jobCompleted>>

(***************************************************************************)
(* CryptoAnalyzer: dispatch and the handlers of the pipeline's events.     *)
(***************************************************************************)
\* The requests the dispatch loop publishes for one timeframe (lines 175-187):
\* bitcoin first, then every coin of the job.
RequestsFor(tf, coin_list) ==
    <<Msg("FetchHistoricalPricesRequested", BTC, tf, None)>>
    \o [i \in 1..Len(coin_list) |-> Msg("FetchHistoricalPricesRequested", coin_list[i], tf, None)]

RECURSIVE RequestsForAll(_, _)
RequestsForAll(tfs, coin_list) ==
    IF tfs = {} THEN <<>>
    ELSE LET tf == CHOOSE t \in tfs : TRUE
         IN  RequestsFor(tf, coin_list) \o RequestsForAll(tfs \ {tf}, coin_list)

\* Lines 170-187 of _start_analysis_if_ready for the retained coins: every job
\* gets its coins and its counter (set_coins_to_process), and its requests
\* are published.
StartAnalysis(coin_list) ==
    LET kept == set_coins_to_process(coin_list) IN
    /\ coins_to_process' = [tf \in JobTimeframes |-> kept]
    /\ processing_counter' = [tf \in JobTimeframes |-> Len(kept) + 1]
    /\ bus' = bus (+) BagOfSeq(RequestsForAll(JobTimeframes, kept))
    /\ fetchRequests' = fetchRequests \o RequestsForAll(JobTimeframes, kept)
    /\ dispatchCount' = dispatchCount + 1

\* _deserialize_prices_dataframe (lines 227-239): None for a missing or empty
\* text and for text pandas cannot read; otherwise the frame.
deserialize_prices_dataframe(body) ==
    IF body \in {None, "", "garbage"} THEN None ELSE body

\* A test that forgets the frame without rows.
PricesUnusable_NoneOnly(df) == df = None

\* prices_df is None or prices_df.empty (line 200).
PricesUnusable(df) == df = None \/ df = "emptyframe"

\* What _handle_historical_prices_fetched publishes for an event (lines
\* 195-224): CoinProcessingFailed for an unusable frame and when reading the
\* close column raises, else CalculateRSIRequested with the close series.
HistoricalPricesOutcome(m) ==
    LET df == deserialize_prices_dataframe(m.body) IN
    IF PricesUnusable(df) \/ df = "noclose"
    THEN Msg("CoinProcessingFailed", m.coin, m.tf, None)
    ELSE Msg("CalculateRSIRequested", m.coin, m.tf, "closes")

\* _deserialize_rsi_series (lines 286-298).
deserialize_rsi_series(body) ==
    IF body \in {None, "", "garbage"} THEN None ELSE body

\* rsi_series is None or rsi_series.empty (line 253).
RsiUnusable(series) == series = None \/ series = "emptyseries"

\* The bus hands message m to a worker, which publishes `published`.
Consumed(m, published) ==
    /\ bus' = (bus (-) SetToBag({m})) (+) published
    /\ delivered' = m
    /\ UNCHANGED redelivered

\* The bus hands message m to a handler of the Orchestrator: the message leaves
\* the bus, or stays in flight and the handler will see it once more.
Delivered(m, published) ==
    /\ delivered' = m
    /\ \/ /\ bus' = (bus (-) SetToBag({m})) (+) published
          /\ UNCHANGED redelivered
       \/ /\ redelivered < MaxRedeliver
          /\ bus' = bus (+) published
          /\ redelivered' = redelivered + 1

InFlight(topic) == {m \in BagToSet(bus) : m.topic = topic}

HandleHistoricalPricesFetched ==
    \E m \in InFlight("HistoricalPricesFetched") :
        /\ Delivered(m, SetToBag({HistoricalPricesOutcome(m)}))
        /\ UNCHANGED <<processing_counter, btc_rsi, coins_to_process,
                       idempotency_tracker, rsi_results, jobCompleted, correlated,
                       decrements, dispatchCount, fetchRequests>>
        /\ UNCHANGED <<seedVars, aggVars, dbVars, extVars>>

\* _handle_rsi_calculated (lines 241-283).
HandleRSICalculated ==
    \E m \in InFlight("RSICalculated") :
        LET series == deserialize_rsi_series(m.body) IN
        IF RsiUnusable(series)
        THEN /\ Delivered(m, SetToBag({Msg("CoinProcessingFailed", m.coin, m.tf, None)}))
             /\ UNCHANGED <<processing_counter, btc_rsi, coins_to_process,
                            idempotency_tracker, rsi_results, jobCompleted,
                            correlated, decrements, dispatchCount, fetchRequests>>
             /\ UNCHANGED <<seedVars, aggVars, dbVars, extVars>>
        ELSE LET rsis == [rsi_results EXCEPT ![<<m.coin, m.tf>>] = series]
                 btc     == IF IsBtcSymbol(m.coin) THEN series ELSE btc_rsi[m.tf]
             IN  /\ rsi_results' = rsis
                 /\ btc_rsi' = [btc_rsi EXCEPT ![m.tf] = btc]
                 /\ DecrementCounter(m.tf, m.coin, btc, rsis)
                 /\ Delivered(m, EmptyBag)
                 /\ UNCHANGED <<coins_to_process, dispatchCount, fetchRequests>>
                 /\ UNCHANGED <<seedVars, aggVars, dbVars, extVars>>

\* _handle_coin_processing_failed (lines 300-308).
HandleCoinProcessingFailed ==
    \E m \in InFlight("CoinProcessingFailed") :
        /\ DecrementCounter(m.tf, m.coin, btc_rsi[m.tf], rsi_results)
        /\ Delivered(m, EmptyBag)
        /\ UNCHANGED <<btc_rsi, coins_to_process, rsi_results, dispatchCount,
                       fetchRequests>>
        /\ UNCHANGED <<seedVars, aggVars, dbVars, extVars>>

(***************************************************************************)
(* The seed join (crypto_analyzer.py:108-193), one step per statement that *)
(* reads or writes what the two seed handlers share.                       *)
(***************************************************************************)
SeedTopics == {"TopCoinsFetched", "PrecisionDataFetched"}

\* c.get("symbol", "").upper()
Upper(symbol) ==
    CASE symbol = "btc" -> "BTC"
      [] symbol = "eth" -> "ETH"
      [] symbol = "fake" -> "FAKE"
      [] OTHER -> symbol

\* usdc_base_symbols (line 153).
UsdcBaseSymbols(markets) ==
    {m.base_asset : m \in {k \in markets : k.quote_asset = "USDC"}}

\* The coins kept by the USDC filter (line 155), as (id, symbol) pairs.
Retained(list, markets) ==
    SelectSeq(list, LAMBDA c : Upper(c[2]) \in UsdcBaseSymbols(markets))

\* A join that looks at the coins only.
SeedCheckOutcome_CoinsOnly(c, p) ==
    IF c = Nothing THEN "wait"
    ELSE IF Len(c[1]) = 0 THEN "stop"
    ELSE "go"

\* A check that never stops the session on an empty seed.
SeedCheckOutcome_NeverStops(c, p) ==
    IF c = Nothing \/ p = Nothing THEN "wait" ELSE "go"

\* Lines 140-148: wait while a seed is missing, stop the session when a seed
\* is empty, go on otherwise.
SeedCheckOutcome(c, p) ==
    IF c = Nothing \/ p = Nothing THEN "wait"
    ELSE IF Len(c[1]) = 0 \/ p[1] = {} THEN "stop"
    ELSE "go"

\* _handle_top_coins_fetched, line 121, on thread t.
ReceiveTopCoins ==
    \E t \in SeedThreads, payload \in topCoinsFetched :
        /\ seedPc[t] = "idle"
        /\ coins' = Some(payload)
        /\ seedsReceived' = seedsReceived \cup {"TopCoinsFetched"}
        /\ seedPc' = [seedPc EXCEPT ![t] = "is_set"]
        /\ \/ /\ topCoinsFetched' = topCoinsFetched \ {payload}
              /\ UNCHANGED redelivered
           \/ /\ redelivered < MaxRedeliver
              /\ redelivered' = redelivered + 1
              /\ UNCHANGED topCoinsFetched
        /\ UNCHANGED <<precision_data, initial_data_loaded, processing_completed,
                       precisionDataFetched, seedsRequested>>
        /\ UNCHANGED <<processing_counter, btc_rsi, coins_to_process,
                       idempotency_tracker, rsi_results, bus, delivered,
                       jobCompleted, correlated, decrements, dispatchCount,
                       fetchRequests>>
        /\ UNCHANGED <<aggVars, dbVars, extVars>>

\* _handle_precision_data_fetched, line 111, on thread t.
ReceivePrecisionData ==
    \E t \in SeedThreads, payload \in precisionDataFetched :
        /\ seedPc[t] = "idle"
        /\ precision_data' = Some(Range(payload))
        /\ seedsReceived' = seedsReceived \cup {"PrecisionDataFetched"}
        /\ seedPc' = [seedPc EXCEPT ![t] = "is_set"]
        /\ \/ /\ precisionDataFetched' = precisionDataFetched \ {payload}
              /\ UNCHANGED redelivered
           \/ /\ redelivered < MaxRedeliver
              /\ redelivered' = redelivered + 1
              /\ UNCHANGED precisionDataFetched
        /\ UNCHANGED <<coins, initial_data_loaded, processing_completed,
                       topCoinsFetched, seedsRequested>>
        /\ UNCHANGED <<processing_counter, btc_rsi, coins_to_process,
                       idempotency_tracker, rsi_results, bus, delivered,
                       jobCompleted, correlated, decrements, dispatchCount,
                       fetchRequests>>
        /\ UNCHANGED <<aggVars, dbVars, extVars>>

\* _start_analysis_if_ready, line 137: return when the flag is set.
CheckInitialDataLoaded ==
    \E t \in SeedThreads :
        /\ seedPc[t] = "is_set"
        /\ seedPc' = [seedPc EXCEPT ![t] =
                         IF initial_data_loaded THEN "idle" ELSE "check"]
        /\ UNCHANGED <<coins, precision_data, initial_data_loaded,
                       processing_completed, topCoinsFetched,
                       precisionDataFetched, seedsReceived, seedsRequested>>
        /\ UNCHANGED <<jobVars, aggVars, dbVars, extVars>>

\* _start_analysis_if_ready, lines 140-148.
CheckInitialData ==
    \E t \in SeedThreads :
        /\ seedPc[t] = "check"
        /\ LET outcome == SeedCheckOutcome(coins, precision_data) IN
           /\ seedPc' = [seedPc EXCEPT ![t] =
                            IF outcome = "go" THEN "set" ELSE "idle"]
           /\ processing_completed' = (processing_completed \/ outcome = "stop")
        /\ UNCHANGED <<coins, precision_data, initial_data_loaded,
                       topCoinsFetched, precisionDataFetched, seedsReceived,
                       seedsRequested>>
        /\ UNCHANGED <<jobVars, aggVars, dbVars, extVars>>

\* _start_analysis_if_ready, line 150.
SetInitialDataLoaded ==
    \E t \in SeedThreads :
        /\ seedPc[t] = "set"
        /\ initial_data_loaded' = TRUE
        /\ seedPc' = [seedPc EXCEPT ![t] = "dispatch"]
        /\ UNCHANGED <<coins, precision_data, processing_completed,
                       topCoinsFetched, precisionDataFetched, seedsReceived,
                       seedsRequested>>
        /\ UNCHANGED <<jobVars, aggVars, dbVars, extVars>>

\* _start_analysis_if_ready, lines 153-187: the USDC filter and the dispatch
\* loop. Filtering a seed that is missing raises, and the handler of the
\* exception ends the session (lines 188-193).
FilterAndDispatch ==
    \E t \in SeedThreads :
        /\ seedPc[t] = "dispatch"
        /\ seedPc' = [seedPc EXCEPT ![t] = "idle"]
        /\ IF coins = Nothing \/ precision_data = Nothing
           THEN /\ processing_completed' = TRUE
                /\ UNCHANGED <<coins, coins_to_process, processing_counter, bus,
                               fetchRequests, dispatchCount>>
           ELSE LET retained == Retained(coins[1], precision_data[1]) IN
                /\ coins' = Some(retained)
                /\ StartAnalysis(retained)
                /\ UNCHANGED processing_completed
        /\ UNCHANGED <<precision_data, initial_data_loaded, topCoinsFetched,
                       precisionDataFetched, seedsReceived, seedsRequested>>
        /\ UNCHANGED <<btc_rsi, idempotency_tracker, rsi_results, redelivered,
                       delivered, jobCompleted, correlated, decrements>>
        /\ UNCHANGED <<aggVars, dbVars, extVars>>

\* DataFetcher._fetch_top_coins_task publishes TopCoinsFetched
\* (data_fetcher.py:47-79).
FetchTopCoins ==
    /\ "TopCoinsFetched" \notin seedsRequested
    /\ seedsRequested' = seedsRequested \cup {"TopCoinsFetched"}
    /\ \E payload \in TopCoinSeeds : topCoinsFetched' = topCoinsFetched \cup {payload}
    /\ UNCHANGED <<coins, precision_data, initial_data_loaded, processing_completed,
                   precisionDataFetched, seedPc, seedsReceived>>
    /\ UNCHANGED <<jobVars, aggVars, dbVars, extVars>>

\* DataFetcher._fetch_precision_data_task publishes PrecisionDataFetched
\* (data_fetcher.py:128-178).
FetchPrecisionData ==
    /\ "PrecisionDataFetched" \notin seedsRequested
    /\ seedsRequested' = seedsRequested \cup {"PrecisionDataFetched"}
    /\ \E payload \in PrecisionSeeds :
          precisionDataFetched' = precisionDataFetched \cup {payload}
    /\ UNCHANGED <<coins, precision_data, initial_data_loaded, processing_completed,
                   topCoinsFetched, seedPc, seedsReceived>>
    /\ UNCHANGED <<jobVars, aggVars, dbVars, extVars>>

(***************************************************************************)
(* The aggregation of the jobs' results (crypto_analyzer.py:340-365).      *)
(***************************************************************************)
\* An event of the aggregation: its topic, its timeframe and, for
\* CorrelationAnalyzed, the coin of its result.
AggMsg(topic, tf, coin) == [topic |-> topic, timeframe |-> tf, coin |-> coin]

\* A counter that announces the results one completion early.
AllJobsCompleted_OneEarly(counter) == counter <= 1

\* The pending-jobs counter at which FinalResultsReady is published (line 355).
AllJobsCompleted(counter) == counter <= 0

\* The bus hands an event of the aggregation to its handler.
AggDelivered(m) ==
    \/ /\ aggBus' = aggBus (-) SetToBag({m})
       /\ UNCHANGED redelivered
    \/ /\ redelivered < MaxRedeliver
       /\ redelivered' = redelivered + 1
       /\ UNCHANGED aggBus

\* The job of a timeframe runs its correlation pass: it publishes a
\* CorrelationAnalyzed for the coins it finds correlated, then its
\* AnalysisJobCompleted (analysis_job.py:76-92).
PublishJobResults ==
    \E i \in 1..Len(ConfigTimeframes), found \in SUBSET (CoinPool \ {BTC}) :
        LET tf == ConfigTimeframes[i] IN
        /\ tf \notin completedJobs
        /\ completedJobs' = completedJobs \cup {tf}
        /\ aggBus' = aggBus
                (+) SetToBag({AggMsg("CorrelationAnalyzed", tf, c) : c \in found})
                (+) SetToBag({AggMsg("AnalysisJobCompleted", tf, BTC)})
        /\ UNCHANGED <<job_completion_counter, results, completionsHandled,
                       finalResultsReady>>
        /\ UNCHANGED <<jobVars, seedVars, dbVars, extVars>>

\* _handle_correlation_analyzed (lines 340-347).
HandleCorrelationAnalyzed ==
    \E m \in BagToSet(aggBus) :
        /\ m.topic = "CorrelationAnalyzed"
        /\ results' = Append(results, <<m.coin, m.timeframe>>)
        /\ AggDelivered(m)
        /\ UNCHANGED <<job_completion_counter, completedJobs, completionsHandled,
                       finalResultsReady>>
        /\ UNCHANGED <<processing_counter, btc_rsi, coins_to_process,
                       idempotency_tracker, rsi_results, bus, delivered,
                       jobCompleted, correlated, decrements, dispatchCount,
                       fetchRequests, seedVars, dbVars, extVars>>

\* _handle_analysis_job_completed (lines 349-365), under _job_lock.
HandleAnalysisJobCompleted ==
    \E m \in BagToSet(aggBus) :
        /\ m.topic = "AnalysisJobCompleted"
        /\ job_completion_counter' = job_completion_counter - 1
        /\ completionsHandled' = completionsHandled + 1
        /\ finalResultsReady' =
              IF AllJobsCompleted(job_completion_counter - 1)
              THEN Append(finalResultsReady, results)
              ELSE finalResultsReady
        /\ AggDelivered(m)
        /\ UNCHANGED <<results, completedJobs>>
        /\ UNCHANGED <<processing_counter, btc_rsi, coins_to_process,
                       idempotency_tracker, rsi_results, bus, delivered,
                       jobCompleted, correlated, decrements, dispatchCount,
                       fetchRequests, seedVars, dbVars, extVars>>

(***************************************************************************)
(* The Database Manager (database_manager.py): a FIFO work queue served by *)
(* one loop thread that owns the SQLite connection.                        *)
(***************************************************************************)
\* A table: its rows in insertion order, of which the first `committed`
\* are committed and the rest belong to the connection's open transaction.
EmptyTable == [rows |-> <<>>, committed |-> 0]

\* The sentinel stop() puts on the queue (database_manager.py:107).
Sentinel == [method |-> None, coin |-> <<>>, frame |-> <<>>, session |-> None]

\* A task as the public methods put it on the queue
\* (database_manager.py:190-195): method name and positional arguments.
Task(method, coin, frame, session) ==
    [method |-> method, coin |-> coin, frame |-> frame, session |-> session]

\* The table a write task inserts into.
TableOf(method) == IF method = "_save_prices_task" THEN "prices" ELSE "rsi"

\* PRIMARY KEY (coin_id, timestamp, session_guid) of prices and of rsi
\* (database_manager.py:146-168).
Key(row) == <<row.coin_id, row.timestamp, row.session_guid>>

\* SQLite refuses an INSERT whose key is already in the table, committed
\* or pending.  A table without the key would refuse nothing.
Conflicts_NoKey(rows, row) == FALSE

Conflicts(rows, row) == \E i \in 1..Len(rows) : Key(rows[i]) = Key(row)

\* The loop over the rows of a write task (database_manager.py:304-316,
\* 330-337): one plain INSERT per row.  _save_rsi_task skips a NaN value;
\* a timestamp that cannot be converted, or a refused INSERT, raises and
\* ends the loop with the rows inserted so far left in the transaction.
RECURSIVE InsertRows(_, _, _)
InsertRows(rows, task, frame) ==
    IF frame = <<>> THEN [rows |-> rows, raised |-> FALSE]
    ELSE LET r   == Head(frame)
             row == [coin_id |-> task.coin, timestamp |-> r.timestamp,
                     session_guid |-> task.session, value |-> r.value]
         IN  IF task.method = "_save_rsi_task" /\ r.flaw = "nan"
             THEN InsertRows(rows, task, Tail(frame))
             ELSE IF r.flaw = "badtimestamp" \/ Conflicts(rows, row)
             THEN [rows |-> rows, raised |-> TRUE]
             ELSE InsertRows(Append(rows, row), task, Tail(frame))

\* conn.commit(): every pending row of every table becomes committed.
Commit(tabs) == [t \in TableNames |-> [tabs[t] EXCEPT !.committed = Len(tabs[t].rows)]]

\* _save_prices_task / _save_rsi_task (database_manager.py:295-340): an
\* empty frame returns at once; otherwise the rows are inserted and, if
\* none raised, committed.  The except clause logs and does not roll back.
SaveTask(tabs, task) ==
    IF task.frame = <<>> THEN tabs
    ELSE LET t   == TableOf(task.method)
             ins == InsertRows(tabs[t].rows, task, task.frame)
             now == [tabs EXCEPT ![t].rows = ins.rows]
         IN  IF ins.raised THEN now ELSE Commit(now)

\* conn.close() (database_manager.py:409-415): the rows of the open
\* transaction are discarded.
Rollback(tabs) ==
    [t \in TableNames |-> [tabs[t] EXCEPT !.rows = SubSeq(@, 1, tabs[t].committed)]]

\* The thread that runs DatabaseManager.run.
LoopThread == "DatabaseManager"

\* Public methods that would write through the connection themselves.
ConnOps_DirectWrite(method) ==
    IF method \in {"save_prices", "save_rsi"} THEN {"execute", "commit"} ELSE {}

\* What a method of the DatabaseManager does with self.conn / self.cursor
\* (database_manager.py:74-76 and 110-185 for run, 295-340 for the write
\* tasks, 355-376 for _get_prices_task, 409-415 for close; the public
\* methods of lines 187-219 and stop only use the queue).
ConnOps(method) ==
    CASE method = "run" -> {"connect", "cursor", "execute", "commit"}
      [] method \in {"_save_prices_task", "_save_rsi_task"} -> {"execute", "commit"}
      [] method = "_get_prices_task" -> {"execute", "fetchall"}
      [] method = "close" -> {"close"}
      [] OTHER -> {}

\* The uses of the connection made by a thread that runs a method.
Accesses(thread, method) == {[thread |-> thread, op |-> o] : o \in ConnOps(method)}

\* What a task does to the tables: the write tasks write, _get_prices_task
\* only reads.
RunMethod(tabs, task) ==
    IF task.method \in {"_save_prices_task", "_save_rsi_task"}
    THEN SaveTask(tabs, task) ELSE tabs

\* save_prices (database_manager.py:190-192), as the handler of
\* HistoricalPricesFetched calls it (database_manager.py:47-48): put the
\* task on the queue, whatever the state of the loop thread.
save_prices ==
    /\ tasksEnqueued < MaxTasks
    /\ \E frame \in Frames :
          work_queue' = Append(work_queue,
                               Task("_save_prices_task", ETH, frame, SessionGuid))
    /\ \E p \in ProducerThreads :
          connAccess' = connAccess \cup Accesses(p, "save_prices")
    /\ tasksEnqueued' = tasksEnqueued + 1
    /\ UNCHANGED <<db_running, dbPc, conn, tables, stopPc, executedTasks,
                   tasksExecuted, jobVars, seedVars, aggVars, extVars>>

\* save_rsi (database_manager.py:194-195), as the handler of RSICalculated
\* calls it (database_manager.py:55-56).
save_rsi ==
    /\ tasksEnqueued < MaxTasks
    /\ \E frame \in Frames :
          work_queue' = Append(work_queue,
                               Task("_save_rsi_task", ETH, frame, SessionGuid))
    /\ \E p \in ProducerThreads :
          connAccess' = connAccess \cup Accesses(p, "save_rsi")
    /\ tasksEnqueued' = tasksEnqueued + 1
    /\ UNCHANGED <<db_running, dbPc, conn, tables, stopPc, executedTasks,
                   tasksExecuted, jobVars, seedVars, aggVars, extVars>>

\* get_prices (database_manager.py:202-210) puts a _get_prices_task on the
\* queue, with the queue on which its caller waits for the rows.
get_prices ==
    /\ tasksEnqueued < MaxTasks
    /\ work_queue' = Append(work_queue,
                            Task("_get_prices_task", ETH, <<>>, SessionGuid))
    /\ \E p \in ProducerThreads :
          connAccess' = connAccess \cup Accesses(p, "get_prices")
    /\ tasksEnqueued' = tasksEnqueued + 1
    /\ UNCHANGED <<db_running, dbPc, conn, tables, stopPc, executedTasks,
                   tasksExecuted, jobVars, seedVars, aggVars, extVars>>

\* One turn of the loop of run() that takes a task
\* (database_manager.py:78-98): the task is executed, an exception it
\* raises is logged, and the task is marked done.
RunTask ==
    /\ dbPc = "loop" /\ db_running
    /\ work_queue # <<>> /\ Head(work_queue) # Sentinel
    /\ work_queue' = Tail(work_queue)
    /\ tables' = RunMethod(tables, Head(work_queue))
    /\ connAccess' = connAccess \cup Accesses(LoopThread, Head(work_queue).method)
    /\ executedTasks' = executedTasks \cup {Head(work_queue)}
    /\ tasksExecuted' = tasksExecuted + 1
    /\ UNCHANGED <<db_running, dbPc, conn, stopPc, tasksEnqueued,
                   jobVars, seedVars, aggVars, extVars>>

\* The turn of the loop that takes the sentinel (database_manager.py:81-85):
\* _running becomes False and the loop is left.
RunSentinel ==
    /\ dbPc = "loop" /\ db_running
    /\ work_queue # <<>> /\ Head(work_queue) = Sentinel
    /\ work_queue' = Tail(work_queue)
    /\ db_running' = FALSE
    /\ dbPc' = "close"
    /\ UNCHANGED <<connAccess, conn, tables, stopPc, tasksEnqueued, executedTasks,
                   tasksExecuted, jobVars, seedVars, aggVars, extVars>>

\* self.close() after the loop (database_manager.py:102, 409-415).
Close ==
    /\ dbPc = "close"
    /\ conn' = "closed"
    /\ tables' = Rollback(tables)
    /\ connAccess' = connAccess \cup Accesses(LoopThread, "close")
    /\ dbPc' = "exited"
    /\ UNCHANGED <<work_queue, db_running, stopPc, tasksEnqueued,
                   executedTasks, tasksExecuted, jobVars, seedVars, aggVars, extVars>>

\* AllProcessingCompleted reaches the Orchestrator, which enters
\* _stop_services (crypto_analyzer.py:391-396); the loop thread is alive.
StopServices ==
    /\ stopPc = "running"
    /\ stopPc' = "wait"
    /\ UNCHANGED <<connAccess, work_queue, db_running, dbPc, conn, tables, tasksEnqueued,
                   executedTasks, tasksExecuted, jobVars, seedVars, aggVars, extVars>>

\* wait_for_queue_completion(timeout=30.0) returns True
\* (crypto_analyzer.py:396): the queue is empty and no task is running.
WaitForQueueCompletion ==
    /\ stopPc = "wait"
    /\ work_queue = <<>>
    /\ stopPc' = "stop"
    /\ UNCHANGED <<connAccess, work_queue, db_running, dbPc, conn, tables, tasksEnqueued,
                   executedTasks, tasksExecuted, jobVars, seedVars, aggVars, extVars>>

\* wait_for_queue_completion returns False: the timeout elapsed with tasks
\* left (crypto_analyzer.py:396-397); the shutdown goes on.
WaitTimedOut ==
    /\ stopPc = "wait"
    /\ work_queue # <<>>
    /\ stopPc' = "stop"
    /\ UNCHANGED <<connAccess, work_queue, db_running, dbPc, conn, tables, tasksEnqueued,
                   executedTasks, tasksExecuted, jobVars, seedVars, aggVars, extVars>>

\* stop() (database_manager.py:105-107), called for each service by the
\* parent's _stop_services (crypto_analyzer.py:402): the sentinel goes
\* behind whatever the queue holds.
stop ==
    /\ stopPc = "stop"
    /\ work_queue' = Append(work_queue, Sentinel)
    /\ connAccess' = connAccess \cup Accesses("main", "stop")
    /\ stopPc' = "join"
    /\ UNCHANGED <<db_running, dbPc, conn, tables, tasksEnqueued,
                   executedTasks, tasksExecuted, jobVars, seedVars, aggVars, extVars>>

\* self.join() (database_manager.py:108) returns once the loop thread has
\* left run().
Join ==
    /\ stopPc = "join"
    /\ dbPc = "exited"
    /\ stopPc' = "stopped"
    /\ UNCHANGED <<connAccess, work_queue, db_running, dbPc, conn, tables, tasksEnqueued,
                   executedTasks, tasksExecuted, jobVars, seedVars, aggVars, extVars>>

(***************************************************************************)
(* The loop of a worker (DatabaseManager.run, database_manager.py:72-103;  *)
(* RSICalculator.run, rsi_calculator.py:50-65; the DataFetcher's loop is   *)
(* that of its base class): one thread per worker takes the tasks that any *)
(* thread has put on the worker's queue.                                   *)
(***************************************************************************)
\* A queued task: its rank among the tasks put on the queue, and the thread
\* that put it.
WorkerTask(ticket, by) == [ticket |-> ticket, by |-> by]

\* The None that stop() puts on the queue (database_manager.py:107,
\* rsi_calculator.py:69).
StopSentinel == WorkerTask(0, "stop")

\* A queue that hands out its newest task.
TakeFrom_Newest(queue) ==
    [task |-> queue[Len(queue)], rest |-> SubSeq(queue, 1, Len(queue) - 1)]

\* work_queue.get() on a queue.Queue: the oldest task, and what is left.
TakeFrom(queue) == [task |-> Head(queue), rest |-> Tail(queue)]

\* The workers share no state: a behaviour follows one worker, the others
\* staying as they were constructed.
Undisturbed(w) ==
    /\ puts[w] = 0 /\ queues[w] = <<>> /\ loopPc[w] = "while"
    /\ running[w] /\ stopping[w] = "none"

Followed(w) == \A v \in WorkerNames \ {w} : Undisturbed(v)

\* queue.Queue() (database_manager.py:23, rsi_calculator.py:22): maxsize is
\* left at its default 0, which Queue takes as no limit.
QueueMaxsize == 0

\* Queue.full(): never, unless maxsize is positive.
Full(q) == QueueMaxsize > 0 /\ Len(q) >= QueueMaxsize

\* work_queue.put(task) by a public method or a bus handler
\* (database_manager.py:187-198, rsi_calculator.py:48, data_fetcher.py:184-191),
\* on whatever thread calls it.  A put on a full queue waits.
PutTask ==
    \E w \in WorkerNames, p \in ProducerThreads :
        /\ Followed(w)
        /\ puts[w] < MaxPuts
        /\ ~Full(queues[w])
        /\ queues' = [queues EXCEPT ![w] = Append(@, WorkerTask(puts[w] + 1, p))]
        /\ puts' = [puts EXCEPT ![w] = @ + 1]
        /\ UNCHANGED putsAtStop
        /\ UNCHANGED <<running, loopPc, current, executed, stopping,
                       jobVars, seedVars, aggVars, dbVars, decVars, lowcapVars, storeVars, dispVars, mainVars, failVars, rsiVars, corrVars, busVars, fetchVars>>

\* `while self._running:` (database_manager.py:78, rsi_calculator.py:52).
LoopWhile ==
    \E w \in WorkerNames :
        /\ Followed(w)
        /\ loopPc[w] = "while"
        /\ loopPc' = [loopPc EXCEPT ![w] = IF running[w] THEN "get" ELSE "exited"]
        /\ UNCHANGED putsAtStop
        /\ UNCHANGED <<queues, running, current, executed, puts, stopping,
                       jobVars, seedVars, aggVars, dbVars, decVars, lowcapVars, storeVars, dispVars, mainVars, failVars, rsiVars, corrVars, busVars, fetchVars>>

\* work_queue.get(timeout=1) returns a task (database_manager.py:81-87,
\* rsi_calculator.py:54-58).  On None the DatabaseManager clears _running
\* and breaks; the RSICalculator continues with the test of its loop.
GetTask ==
    \E w \in WorkerNames :
        /\ loopPc[w] = "get"
        /\ queues[w] # <<>>
        /\ LET got == TakeFrom(queues[w])
           IN  /\ queues' = [queues EXCEPT ![w] = got.rest]
               /\ IF got.task = StopSentinel
                  THEN /\ running' = [running EXCEPT
                                        ![w] = IF w = "RSICalculator" THEN @ ELSE FALSE]
                       /\ loopPc' = [loopPc EXCEPT
                                        ![w] = IF w = "RSICalculator" THEN "while" ELSE "exited"]
                       /\ UNCHANGED current
                  ELSE /\ current' = [current EXCEPT ![w] = @ \cup {got.task}]
                       /\ loopPc' = [loopPc EXCEPT ![w] = "exec"]
                       /\ UNCHANGED running
        /\ UNCHANGED putsAtStop
        /\ UNCHANGED <<executed, puts, stopping,
                       jobVars, seedVars, aggVars, dbVars, decVars, lowcapVars, storeVars, dispVars, mainVars, failVars, rsiVars, corrVars, busVars, fetchVars>>

\* work_queue.get(timeout=1) raises queue.Empty and the loop continues
\* (database_manager.py:99-101, rsi_calculator.py:60-61).
GetTimeout ==
    \E w \in WorkerNames :
        /\ loopPc[w] = "get"
        /\ queues[w] = <<>>
        /\ loopPc' = [loopPc EXCEPT ![w] = "while"]
        /\ UNCHANGED putsAtStop
        /\ UNCHANGED <<queues, running, current, executed, puts, stopping,
                       jobVars, seedVars, aggVars, dbVars, decVars, lowcapVars, storeVars, dispVars, mainVars, failVars, rsiVars, corrVars, busVars, fetchVars>>

\* The task's method returns or raises, and the loop goes on
\* (database_manager.py:88-98, rsi_calculator.py:57-63).
TaskDone ==
    \E w \in WorkerNames :
        /\ loopPc[w] = "exec"
        /\ \E t \in current[w] :
              /\ executed' = [executed EXCEPT ![w] = Append(@, t)]
              /\ current' = [current EXCEPT ![w] = @ \ {t}]
        /\ loopPc' = [loopPc EXCEPT ![w] = "while"]
        /\ UNCHANGED putsAtStop
        /\ UNCHANGED <<queues, running, puts, stopping,
                       jobVars, seedVars, aggVars, dbVars, decVars, lowcapVars, storeVars, dispVars, mainVars, failVars, rsiVars, corrVars, busVars, fetchVars>>

\* RSICalculator.stop clears _running before it puts None
\* (rsi_calculator.py:68).
StopClearRunning ==
    /\ Followed("RSICalculator")
    /\ stopping["RSICalculator"] = "none"
    /\ running' = [running EXCEPT !["RSICalculator"] = FALSE]
    /\ stopping' = [stopping EXCEPT !["RSICalculator"] = "put"]
    /\ putsAtStop' = [putsAtStop EXCEPT !["RSICalculator"] = Some(puts["RSICalculator"])]
    /\ UNCHANGED <<queues, loopPc, current, executed, puts,
                   jobVars, seedVars, aggVars, dbVars, decVars, lowcapVars, storeVars, dispVars, mainVars, failVars, rsiVars, corrVars, busVars, fetchVars>>

\* stop() puts None on the queue (database_manager.py:107,
\* rsi_calculator.py:69).
StopPut ==
    \E w \in WorkerNames :
        /\ Followed(w)
        /\ stopping[w] = IF w = "RSICalculator" THEN "put" ELSE "none"
        /\ queues' = [queues EXCEPT ![w] = Append(@, StopSentinel)]
        /\ stopping' = [stopping EXCEPT ![w] = "join"]
        /\ putsAtStop' = [putsAtStop EXCEPT ![w] = IF w = "RSICalculator" THEN @ ELSE Some(puts[w])]
        /\ UNCHANGED <<running, loopPc, current, executed, puts,
                       jobVars, seedVars, aggVars, dbVars, decVars, lowcapVars, storeVars, dispVars, mainVars, failVars, rsiVars, corrVars, busVars, fetchVars>>

\* stop() joins the loop thread (database_manager.py:108,
\* rsi_calculator.py:70).
StopJoin ==
    \E w \in WorkerNames :
        /\ stopping[w] = "join"
        /\ loopPc[w] = "exited"
        /\ stopping' = [stopping EXCEPT ![w] = "stopped"]
        /\ UNCHANGED putsAtStop
        /\ UNCHANGED <<queues, running, loopPc, current, executed, puts,
                       jobVars, seedVars, aggVars, dbVars, decVars, lowcapVars, storeVars, dispVars, mainVars, failVars, rsiVars, corrVars, busVars, fetchVars>>

(***************************************************************************)
(* ServiceBus (service_bus.py): one _internal_handler per subscription,    *)
(* registered with the broker client, which calls the handlers of a topic  *)
(* for each message it receives.                                           *)
(***************************************************************************)
\* The topics of the model: one with an event schema in EVENT_SCHEMAS
\* (service_bus.py:30-47), one without.
BusTopics == {"RSICalculated", "WorkerFailed"}

HasSchema(topic) == topic = "RSICalculated"

\* _handlers (service_bus.py:58, 60-63): the subscribers of a topic, in
\* subscription order (database_manager.py:32, crypto_analyzer.py:78, 83).
Subscribers(topic) ==
    IF topic = "RSICalculated"
    THEN <<"DatabaseManager._handle_rsi_calculated", "CryptoAnalyzer._handle_rsi_calculated">>
    ELSE <<"CryptoAnalyzer._handle_worker_failed">>

\* What a received message can be: the broker's confirmation string, a value
\* that is not a mapping, a mapping with a key that is not a string, with a
\* required field missing, with a wrongly typed field, with a field the
\* schema does not know, or a mapping of exactly the schema's fields.
Payloads == {"subscribed", "notdict", "badkeys", "missing", "wrongtype", "extra", "valid"}

\* What a subscriber does with the event: it returns or it raises.
SubscriberOutcomes == {"returns", "ValueError", "AttributeError"}

\* event_class(**message) for a pydantic model with the default
\* configuration (events.py:10-12, 64-68): a key that is not a string is a
\* TypeError of the call; a missing or wrongly typed field is a
\* ValidationError, which is a ValueError; an unknown field is ignored.
Construct(payload) ==
    CASE payload \in {"valid", "extra"}       -> "event"
      [] payload \in {"missing", "wrongtype"} -> "ValidationError"
      [] OTHER                                -> "TypeError"

\* `except TypeError` (service_bus.py:91).
CaughtAtValidation(exc) == exc = "TypeError"

\* A call of the subscriber without a try around it.
CaughtAtSubscriber_Nothing(exc) == FALSE

\* `except Exception` around the call of the subscriber (service_bus.py:97).
CaughtAtSubscriber(exc) == TRUE

\* _internal_handler (service_bus.py:76-98) for a message of a topic, with
\* a subscriber that behaves as given: whether the subscriber is called,
\* what is logged, and the exception that leaves the handler, if any.
InternalHandler(topic, payload, behaviour) ==
    LET quiet  == [called |-> FALSE, log |-> None, escapes |-> None, where |-> None]
        call   == IF behaviour = "returns"
                  THEN [quiet EXCEPT !.called = TRUE]
                  ELSE IF CaughtAtSubscriber(behaviour)
                  THEN [quiet EXCEPT !.called = TRUE, !.log = "error"]
                  ELSE [quiet EXCEPT !.called = TRUE, !.escapes = behaviour,
                                     !.where = "subscriber"]
    IN  IF payload = "subscribed" THEN quiet
        ELSE IF ~HasSchema(topic) THEN call
        ELSE IF payload = "notdict" THEN [quiet EXCEPT !.log = "warning"]
        ELSE IF Construct(payload) = "event" THEN call
        ELSE IF CaughtAtValidation(Construct(payload))
        THEN [quiet EXCEPT !.log = "error"]
        ELSE [quiet EXCEPT !.escapes = Construct(payload), !.where = "validation"]

\* A message as the client holds it.
BusMessage(id, topic, payload) == [id |-> id, topic |-> topic, payload |-> payload]

\* What the broker client may do when a handler it called raises: go on
\* with the next handler, give the message up, or stop listening.
ClientReactions == {"continue", "skip", "die"}

\* The client receives a message of a subscribed topic from the broker.
ClientReceive ==
    /\ clientAlive
    /\ received < MaxMessages
    /\ \E topic \in BusTopics, payload \in Payloads :
          inbox' = Append(inbox, BusMessage(received + 1, topic, payload))
    /\ received' = received + 1
    /\ UNCHANGED <<cursor, invoked, escaped, logged, dispatched, clientAlive,
                   jobVars, seedVars, aggVars, dbVars, decVars, lowcapVars, storeVars, dispVars, mainVars, failVars, rsiVars, corrVars, workerVars, fetchVars>>

\* The client calls the next registered handler of the oldest message's
\* topic (service_bus.py:100): _internal_handler runs, and the client goes
\* on to the next handler or, after the last one, to the next message.
ClientCallHandler ==
    /\ clientAlive
    /\ inbox # <<>>
    /\ LET m    == Head(inbox)
           subs == Subscribers(m.topic)
           h    == subs[cursor]
       IN  \E behaviour \in SubscriberOutcomes, reaction \in ClientReactions :
             LET o    == InternalHandler(m.topic, m.payload, behaviour)
                 goOn == o.escapes = None \/ reaction = "continue"
                 last == cursor = Len(subs)
             IN  /\ o.called \/ behaviour = "returns"
                 /\ o.escapes # None \/ reaction = "continue"
                 /\ invoked' = IF o.called
                               THEN Append(invoked, [handler |-> h, message |-> m,
                                                     raised |-> behaviour # "returns"])
                               ELSE invoked
                 /\ logged' = IF o.log # None
                              THEN logged \cup {[handler |-> h, id |-> m.id, level |-> o.log]}
                              ELSE logged
                 /\ escaped' = IF o.escapes # None
                               THEN Append(escaped, [handler |-> h, id |-> m.id,
                                                     error |-> o.escapes, where |-> o.where])
                               ELSE escaped
                 /\ clientAlive' = (goOn \/ reaction = "skip")
                 /\ cursor' = IF goOn /\ ~last THEN cursor + 1
                              ELSE IF reaction = "die" /\ ~goOn THEN cursor ELSE 1
                 /\ inbox' = IF (goOn /\ last) \/ (~goOn /\ reaction = "skip")
                             THEN Tail(inbox) ELSE inbox
                 /\ dispatched' = IF goOn /\ last THEN dispatched \cup {m} ELSE dispatched
    /\ UNCHANGED <<received, jobVars, seedVars, aggVars, dbVars, decVars, lowcapVars, storeVars, dispVars, mainVars, failVars, rsiVars, corrVars, workerVars, fetchVars>>

(***************************************************************************)
(* The DataFetcher's tasks (data_fetcher.py:47-118), executed one at a     *)
(* time by its loop, each under its retry decorator.                       *)
(***************************************************************************)
\* A coin the exchange does not list.
FAKE == <<"fakecoin", "fake">>

\* binance.markets once loaded: the symbols the exchange lists.
ExchangeMarkets == {<<"ETH", "USDC">>, <<"BTC", "USDC">>}

\* symbol = f"{coin_symbol.upper()}/USDC" (data_fetcher.py:91).
PairSymbol(coin) == <<Upper(coin[2]), "USDC">>

\* What binance.load_markets and binance.fetch_ohlcv can do: raise a
\* transient ccxt.NetworkError, raise another ccxt error, or return.
LoadOutcomes == {"NetworkError", "ExchangeError", "loaded"}
OhlcvOutcomes == {"NetworkError", "ExchangeError", "empty", "rows"}

\* stop_after_attempt(3) and retry_if_exception_type(ccxt.NetworkError) of
\* the decorator of _fetch_historical_prices_task (data_fetcher.py:81-88).
StopAfterAttempt == 3
RetryIf(exc) == exc = "NetworkError"

\* What a tenacity retry decorator without reraise does with an exception
\* that left the decorated call on the given attempt: an exception its
\* predicate rejects goes out unchanged, an accepted one starts another
\* attempt, and after the last attempt a RetryError goes out in its place.
Retrying(exc, attempt, stopAfter, retryable) ==
    IF ~retryable THEN [again |-> FALSE, raises |-> exc]
    ELSE IF attempt < stopAfter THEN [again |-> TRUE, raises |-> None]
    ELSE [again |-> FALSE, raises |-> "RetryError"]

\* An except clause that lets the transient network errors through.
CaughtInTask_NotNetworkError(exc) == exc # "NetworkError"

\* `except Exception` inside the task (data_fetcher.py:110-111).
CaughtInTask(exc) == TRUE

\* A market test that finds every symbol.
SymbolListed_Always(symbol, markets) == TRUE

\* `symbol in self.binance.markets` (data_fetcher.py:100).
SymbolListed(symbol, markets) == symbol \in markets

\* The task a worker executes: its method, its arguments, the attempt of
\* the retry decorator, and for the top coins the page and the coins so far.
FetchTask(kind, coin, tf, n) ==
    [kind |-> kind, coin |-> coin, timeframe |-> tf, n |-> n, attempt |-> 1,
     page |-> 1, page_attempt |-> 1, coins |-> <<>>]

\* One execution of the body of _fetch_historical_prices_task
\* (data_fetcher.py:89-118) with the remote calls behaving as given: the
\* markets afterwards, whether fetch_ohlcv was called, the exception the
\* except clause caught, the exception that leaves the body, and the body
\* of the HistoricalPricesFetched it publishes (None for null).
HistoricalPricesBody(markets, coin, load, ohlcv) ==
    LET mustLoad  == markets = Nothing
        loadFails == mustLoad /\ load # "loaded"
        after     == IF mustLoad /\ ~loadFails THEN Some(ExchangeMarkets) ELSE markets
        fetches   == ~loadFails /\ SymbolListed(PairSymbol(coin), after[1])
        error     == IF loadFails THEN load
                     ELSE IF fetches /\ ohlcv \in {"NetworkError", "ExchangeError"}
                     THEN ohlcv ELSE None
        leaves    == IF error # None /\ ~CaughtInTask(error) THEN error ELSE None
    IN  [markets |-> after, fetches |-> fetches, caught |-> error, raises |-> leaves,
         body |-> IF fetches /\ ohlcv = "rows" THEN "frame" ELSE None]

\* The loop takes a _fetch_historical_prices_task from the queue
\* (data_fetcher.py:187-188).
StartHistoricalPricesTask ==
    /\ df_task = Nothing
    /\ df_tasks < MaxFetchTasks
    /\ \E coin \in {ETH, FAKE}, tf \in JobTimeframes :
          df_task' = Some(FetchTask("_fetch_historical_prices_task", coin, tf, 0))
    /\ df_tasks' = df_tasks + 1
    /\ UNCHANGED <<df_markets, df_prices_published, df_top_published, df_ohlcv_calls,
                   df_raised, df_last,
                   jobVars, seedVars, aggVars, dbVars, decVars, lowcapVars, storeVars, dispVars, mainVars, failVars, rsiVars, corrVars, workerVars, busVars>>

\* One attempt of _fetch_historical_prices_task under its decorator
\* (data_fetcher.py:81-118): the body runs; if no exception leaves it, the
\* event is published and the task is over; if one leaves it, the decorator
\* calls the body again for a NetworkError before the last attempt and lets
\* the failure out of the task otherwise.
AttemptHistoricalPrices ==
    /\ df_task # Nothing
    /\ df_task[1].kind = "_fetch_historical_prices_task"
    /\ \E load \in LoadOutcomes, ohlcv \in OhlcvOutcomes :
          LET t == df_task[1]
              r == HistoricalPricesBody(df_markets, t.coin, load, ohlcv)
          IN  /\ df_markets = Nothing \/ load = "loaded"
              /\ r.fetches \/ ohlcv = "rows"
              /\ df_markets' = r.markets
              /\ df_ohlcv_calls' = df_ohlcv_calls + (IF r.fetches THEN 1 ELSE 0)
              /\ df_last' = Some([coin |-> t.coin, timeframe |-> t.timeframe,
                                  attempt |-> t.attempt, fetches |-> r.fetches,
                                  caught |-> r.caught, raises |-> r.raises])
              /\ IF r.raises = None
                 THEN /\ df_prices_published' =
                           Append(df_prices_published,
                                  Msg("HistoricalPricesFetched", t.coin, t.timeframe, r.body))
                      /\ df_task' = Nothing
                      /\ UNCHANGED df_raised
                 ELSE LET d == Retrying(r.raises, t.attempt, StopAfterAttempt,
                                        RetryIf(r.raises))
                      IN  IF d.again
                          THEN /\ df_task' = Some([t EXCEPT !.attempt = @ + 1])
                               /\ UNCHANGED <<df_prices_published, df_raised>>
                          ELSE /\ df_raised' = Append(df_raised, d.raises)
                               /\ df_task' = Nothing
                               /\ UNCHANGED df_prices_published
    /\ UNCHANGED <<df_top_published, df_tasks,
                   jobVars, seedVars, aggVars, dbVars, decVars, lowcapVars, storeVars, dispVars, mainVars, failVars, rsiVars, corrVars, workerVars, busVars>>

\* per_page of get_coins_markets (data_fetcher.py:63), scaled down from 100.
PerPage == 2

\* pages = (n + 99) // 100 (data_fetcher.py:50), at the scaled page size.
PagesFor(n) == (n + PerPage - 1) \div PerPage

\* What cg.get_coins_markets can do for a page: raise a network error, raise
\* another error of the API, return nothing, or return the page's coins.
PageOutcomes == {"RequestException", "ValueError", "empty", "page"}

\* The coins of a page, named by their rank.
PageCoins(page) == [k \in 1..PerPage |-> (page - 1) * PerPage + k]

\* stop_after_attempt(4) and retry_if_exception_type(RequestException) of
\* the decorator of fetch_one_page (data_fetcher.py:53-60).
StopAfterAttemptPage == 4
RetryIfPage(exc) == exc = "RequestException"

\* `except requests.exceptions.RequestException` around the call of one
\* page (data_fetcher.py:72).
CaughtInPageLoop(exc) == exc = "RequestException"

\* coins[:n] (data_fetcher.py:79).
FirstN(seq, n) == SubSeq(seq, 1, IF Len(seq) < n THEN Len(seq) ELSE n)

\* TopCoinsFetched(coins=coins[:n]) (data_fetcher.py:79).
TopCoinsFetched(collected, n) == [topic |-> "TopCoinsFetched", coins |-> FirstN(collected, n)]

\* The loop takes a _fetch_top_coins_task from the queue
\* (data_fetcher.py:184-185).
StartTopCoinsTask ==
    /\ df_task = Nothing
    /\ df_tasks < MaxFetchTasks
    /\ \E n \in 1..MaxTopN :
          df_task' = Some(FetchTask("_fetch_top_coins_task", <<>>, None, n))
    /\ df_tasks' = df_tasks + 1
    /\ UNCHANGED <<df_markets, df_prices_published, df_top_published, df_ohlcv_calls,
                   df_raised, df_last,
                   jobVars, seedVars, aggVars, dbVars, decVars, lowcapVars, storeVars, dispVars, mainVars, failVars, rsiVars, corrVars, workerVars, busVars>>

\* One call of get_coins_markets inside _fetch_top_coins_task
\* (data_fetcher.py:47-79) and what follows it up to the next call: the
\* decorator of fetch_one_page repeats the call or lets an exception out,
\* the loop collects the page, goes to the next page, breaks, or is left by
\* an exception it does not catch, and after the loop the event is
\* published.
AttemptTopCoinsPage ==
    /\ df_task # Nothing
    /\ df_task[1].kind = "_fetch_top_coins_task"
    /\ \E outcome \in PageOutcomes :
          LET t     == df_task[1]
              exc   == IF outcome \in {"RequestException", "ValueError"} THEN outcome ELSE None
              d     == Retrying(exc, t.page_attempt, StopAfterAttemptPage, RetryIfPage(exc))
              again == exc # None /\ d.again
              out   == IF exc # None /\ ~d.again THEN d.raises ELSE None
              leaves == out # None /\ ~CaughtInPageLoop(out)
              collected == IF outcome = "page" THEN t.coins \o PageCoins(t.page) ELSE t.coins
              next  == outcome = "page" /\ t.page < PagesFor(t.n)
          IN  /\ df_last' = Some([n |-> t.n, page |-> t.page, attempt |-> t.page_attempt,
                                  outcome |-> outcome, collected |-> collected,
                                  raises |-> IF leaves THEN out ELSE None])
              /\ IF again
                 THEN /\ df_task' = Some([t EXCEPT !.page_attempt = @ + 1])
                      /\ UNCHANGED <<df_top_published, df_raised>>
                 ELSE IF leaves
                 THEN /\ df_raised' = Append(df_raised, out)
                      /\ df_task' = Nothing
                      /\ UNCHANGED df_top_published
                 ELSE IF next
                 THEN /\ df_task' = Some([t EXCEPT !.page = @ + 1, !.page_attempt = 1,
                                                   !.coins = collected])
                      /\ UNCHANGED <<df_top_published, df_raised>>
                 ELSE /\ df_top_published' =
                           Append(df_top_published, TopCoinsFetched(collected, t.n))
                      /\ df_task' = Nothing
                      /\ UNCHANGED df_raised
    /\ UNCHANGED <<df_markets, df_prices_published, df_ohlcv_calls, df_tasks,
                   jobVars, seedVars, aggVars, dbVars, decVars, lowcapVars, storeVars, dispVars, mainVars, failVars, rsiVars, corrVars, workerVars, busVars>>

(***************************************************************************)
(* The RSICalculator: its configuration, its request handler and its task  *)
(* (rsi_calculator.py:32-125).                                             *)
(***************************************************************************)
\* The price series a CalculateRSIRequested can carry.
PriceSeries == {<<>>, <<6, 5>>, <<5, 6, 4>>, <<4, 5, 6>>}

\* prices_series_json of a CalculateRSIRequested: absent, a text that is
\* not a series, or the JSON of a series.
PricesJsons ==
    {Nothing} \cup {Some([text |-> "corrupt", values |-> <<>>])}
              \cup {Some([text |-> "split", values |-> v]) : v \in PriceSeries}

\* _handle_calculate_rsi_requested, lines 40-46: the series rebuilt from
\* the JSON, None when the JSON is absent or cannot be read.
ReadPrices(json) ==
    IF json = Nothing THEN Nothing
    ELSE IF json[1].text = "corrupt" THEN Nothing
    ELSE Some(json[1].values)

\* A guard that only refuses a series that is missing or empty.
InsufficientData_OnlyMissing(data, periods) ==
    data = Nothing \/ Len(data[1]) = 0

\* `data is None or data.empty or len(data) < self.periods + 1` (line 103).
InsufficientData(data, periods) ==
    data = Nothing \/ Len(data[1]) = 0 \/ Len(data[1]) < periods + 1

\* delta.where(delta > 0, 0) and -delta.where(delta < 0, 0) at position i
\* (lines 106-108); the first delta is NaN and both put 0 in its place.
GainAt(data, i) ==
    IF i >= 2 /\ data[i] - data[i - 1] > 0 THEN data[i] - data[i - 1] ELSE 0

LossAt(data, i) ==
    IF i >= 2 /\ data[i] - data[i - 1] < 0 THEN data[i - 1] - data[i] ELSE 0

\* The sum of a window of `periods` positions ending at i.
RECURSIVE WindowGain(_, _, _)
WindowGain(data, i, periods) ==
    IF periods = 0 THEN 0 ELSE GainAt(data, i) + WindowGain(data, i - 1, periods - 1)

RECURSIVE WindowLoss(_, _, _)
WindowLoss(data, i, periods) ==
    IF periods = 0 THEN 0 ELSE LossAt(data, i) + WindowLoss(data, i - 1, periods - 1)

\* Lines 106-112: the rolling means exist from position `periods` on, a mean
\* loss of 0 becomes NaN, rsi = 100 - 100 / (1 + gain / loss), and dropna
\* removes the NaN rows. The value is kept as the fraction it equals,
\* 100 * gain / (gain + loss).
RsiSeries(data, periods) ==
    LET rows == [i \in 1..Len(data) |->
                    [at |-> i, num |-> 100 * WindowGain(data, i, periods),
                     den |-> WindowGain(data, i, periods) + WindowLoss(data, i, periods)]]
    IN  SelectSeq(rows, LAMBDA r : r.at >= periods /\ WindowLoss(data, r.at, periods) > 0)

\* RSICalculated(coin_id_symbol, rsi_series_json, timeframe) (lines 120-124).
RSICalculatedEvent(coin, json, tf) == [coin_id_symbol |-> coin, rsi_series_json |-> json, timeframe |-> tf]

\* _calculate_rsi_task (lines 98-125): the event it publishes for a period
\* and a series. The try block raises for an unconfigured period or an
\* insufficient series and rsi_series stays None; rsi_json is None for a
\* series that is None or empty.
CalculateRsi(periods, coin, data, tf) ==
    LET raises == periods = Nothing \/ InsufficientData(data, periods[1])
        series == IF raises THEN Nothing ELSE Some(RsiSeries(data[1], periods[1]))
        json   == IF series # Nothing /\ series[1] # <<>> THEN series ELSE Nothing
    IN  RSICalculatedEvent(coin, json, tf)

\* _handle_configuration_provided (lines 32-36).
HandleConfigurationProvided ==
    /\ \E p \in 1..MaxRsiPeriod : rsi_periods' = Some(p)
    /\ rsi_periods' # rsi_periods
    /\ UNCHANGED <<rsi_queue, rsi_published, rsi_log, rsi_requests,
                   jobVars, seedVars, aggVars, dbVars, decVars, lowcapVars, storeVars, dispVars, mainVars, failVars, corrVars, workerVars, busVars, fetchVars>>

\* _handle_calculate_rsi_requested (lines 38-49).
HandleCalculateRSIRequested ==
    /\ rsi_requests < MaxRsiRequests
    /\ \E json \in PricesJsons :
          rsi_queue' = Append(rsi_queue,
                              [coin |-> ETH, data |-> ReadPrices(json), timeframe |-> "1d"])
    /\ rsi_requests' = rsi_requests + 1
    /\ UNCHANGED <<rsi_periods, rsi_published, rsi_log,
                   jobVars, seedVars, aggVars, dbVars, decVars, lowcapVars, storeVars, dispVars, mainVars, failVars, corrVars, workerVars, busVars, fetchVars>>

\* The loop executes the oldest _calculate_rsi_task (lines 50-65, 98-125).
CalculateRsiTask ==
    /\ rsi_queue # <<>>
    /\ LET t == Head(rsi_queue) IN
          /\ rsi_published' =
                Append(rsi_published, CalculateRsi(rsi_periods, t.coin, t.data, t.timeframe))
          /\ rsi_log' = Append(rsi_log, [periods |-> rsi_periods, data |-> t.data])
    /\ rsi_queue' = Tail(rsi_queue)
    /\ UNCHANGED <<rsi_periods, rsi_requests,
                   jobVars, seedVars, aggVars, dbVars, decVars, lowcapVars, storeVars, dispVars, mainVars, failVars, corrVars, workerVars, busVars, fetchVars>>

(***************************************************************************)
(* Worker failures: _handle_worker_failed (crypto_analyzer.py:367-379) and *)
(* the main thread that waits for the end of the processing.               *)
(***************************************************************************)
\* The jobs have been dispatched and can report.
JobsRunning == initial_data_loaded /\ \A t \in SeedThreads : seedPc[t] # "dispatch"

\* A step of the workflow in which every event is delivered once and to the
\* first of the bus's threads: the workflow a behaviour with failures follows.
DeliveredOnce == redelivered' = redelivered /\ seedPc'["t2"] = "idle"

\* Where the Orchestrator is in its workflow: before the seeds have started
\* the analysis, in the dispatch of _start_analysis_if_ready, with jobs
\* pending, or with FinalResultsReady published and the display awaited.
OrchestratorState ==
    IF finalResultsReady # <<>> THEN "awaiting_display"
    ELSE IF \E t \in SeedThreads : seedPc[t] = "dispatch" THEN "dispatching"
    ELSE IF initial_data_loaded THEN "jobs_pending"
    ELSE "before_seeds"

\* An AllProcessingCompleted that never reaches the main wait.
PublishAllProcessingCompleted_Dropped(completed) == completed

\* service_bus.publish("AllProcessingCompleted", ...) (line 375): the event
\* sets _processing_completed, whatever it was.
PublishAllProcessingCompleted(completed) == TRUE

\* A worker publishes WorkerFailed(worker_name, reason).
PublishWorkerFailed ==
    /\ wf_published < MaxWorkerFailures
    /\ wf_published' = wf_published + 1
    /\ wf_pending' = wf_pending + 1
    /\ UNCHANGED <<wf_handled, mainPc,
                   jobVars, seedVars, aggVars, dbVars, decVars, lowcapVars, storeVars, dispVars, mainVars, corrVars, workerVars, busVars,
                   fetchVars, rsiVars>>

\* _handle_worker_failed (lines 367-379): log, then publish
\* AllProcessingCompleted, in whatever state the Orchestrator is.
HandleWorkerFailed ==
    /\ wf_pending > 0
    /\ wf_pending' = wf_pending - 1
    /\ wf_handled' = Append(wf_handled, OrchestratorState)
    /\ processing_completed' = PublishAllProcessingCompleted(processing_completed)
    /\ UNCHANGED <<coins, precision_data, initial_data_loaded, topCoinsFetched,
                   precisionDataFetched, seedPc, seedsReceived, seedsRequested>>
    /\ UNCHANGED <<wf_published, mainPc,
                   jobVars, aggVars, dbVars, decVars, lowcapVars, storeVars, dispVars, mainVars, corrVars, workerVars, busVars,
                   fetchVars, rsiVars>>

\* The main thread's wait for _processing_completed returns and the
\* shutdown of the services starts.
MainWaitReturns ==
    /\ mainPc = "waiting"
    /\ processing_completed
    /\ mainPc' = "shutdown"
    /\ UNCHANGED <<wf_pending, wf_published, wf_handled,
                   jobVars, seedVars, aggVars, dbVars, decVars, lowcapVars, storeVars, dispVars, mainVars, corrVars, workerVars, busVars,
                   fetchVars, rsiVars>>

(***************************************************************************)
(* The program: main.py builds the configuration, constructs the           *)
(* Orchestrator and runs it (main.py:10-38, configuration.py,              *)
(* crypto_analyzer.py:36-83).                                              *)
(***************************************************************************)
\* The values an AnalysisConfig can be built from. correlation_threshold is
\* in tenths (15 for 1.5), low_cap_percentile in units.
ConfigTimeframeLists == UNION {[1..n -> {"1h", "1d"}] : n \in 0..MaxTimeframes}

ConfigInputs ==
    [weeks : {0, 50}, top_n_coins : {0, 500}, correlation_threshold : {-1, 0, 7, 10, 15},
     rsi_period : {1, 2, 14}, low_cap_percentile : {-1, 0, 25, 100, 101},
     timeframes : ConfigTimeframeLists]

\* A validation that bounds the threshold from below only.
Validates_NoUpperBound(c) ==
    /\ c.weeks > 0
    /\ c.top_n_coins > 0
    /\ c.correlation_threshold >= 0
    /\ c.rsi_period > 1
    /\ c.low_cap_percentile >= 0 /\ c.low_cap_percentile <= 100

\* The Field constraints of AnalysisConfig (configuration.py:7-12): the
\* construction raises ValidationError when one of them fails.
Validates(c) ==
    /\ c.weeks > 0
    /\ c.top_n_coins > 0
    /\ c.correlation_threshold >= 0 /\ c.correlation_threshold <= 10
    /\ c.rsi_period > 1
    /\ c.low_cap_percentile >= 0 /\ c.low_cap_percentile <= 100

\* {tf: AnalysisJob(tf, self) for tf in self.config.timeframes}
\* (crypto_analyzer.py:57): a dict, one key per distinct label.
AnalysisJobsOf(timeframes) == Range(timeframes)

\* len(self.config.timeframes) (crypto_analyzer.py:59).
JobCompletionCounterOf(timeframes) == Len(timeframes)

\* What main.py does once analyzer.run() has returned: it logs and reaches
\* the end of the script (main.py:37-38), whatever happened during the run.
ExitCodeAfterRun(failed) == 0

\* main.py:18-31: AnalysisConfig(...) is built; a ValidationError is logged
\* and the process exits with 1.
LoadConfig ==
    /\ main_pc = "start"
    /\ \E c \in ConfigInputs :
          /\ main_config' = Some(c)
          /\ IF Validates(c)
             THEN /\ main_pc' = "configured"
                  /\ UNCHANGED exit_code
             ELSE /\ main_pc' = "exited"
                  /\ exit_code' = Some(1)
    /\ UNCHANGED <<created, main_published, analysis_jobs, main_counter, worker_failed,
                   jobVars, seedVars, aggVars, dbVars, decVars, lowcapVars, storeVars, dispVars, corrVars, workerVars, busVars,
                   fetchVars, rsiVars, failVars>>

\* main.py:34 and CryptoAnalyzer.__init__ (crypto_analyzer.py:36-62): the
\* bus, the jobs and the completion counter.
ConstructAnalyzer ==
    /\ main_pc = "configured"
    /\ main_pc' = "constructed"
    /\ created' = created \cup {"ServiceBus", "CryptoAnalyzer"}
    /\ analysis_jobs' = AnalysisJobsOf(main_config[1].timeframes)
    /\ main_counter' = JobCompletionCounterOf(main_config[1].timeframes)
    /\ UNCHANGED <<main_config, exit_code, main_published, worker_failed,
                   jobVars, seedVars, aggVars, dbVars, decVars, lowcapVars, storeVars, dispVars, corrVars, workerVars, busVars,
                   fetchVars, rsiVars, failVars>>

\* analyzer.run() (main.py:37) starts: the services are registered
\* (crypto_analyzer.py:64-70) and started, and start_workflow publishes the
\* configuration and the request to run (crypto_analyzer.py:85-89).
RunStarts ==
    /\ main_pc = "constructed"
    /\ main_pc' = "running"
    /\ created' = created \cup {"DatabaseManager", "DataFetcher", "RSICalculator",
                                "DisplayAgent"}
    /\ main_published' = main_published \o
                            <<"AnalysisConfigurationProvided", "RunAnalysisRequested">>
    /\ UNCHANGED <<main_config, exit_code, analysis_jobs, main_counter, worker_failed,
                   jobVars, seedVars, aggVars, dbVars, decVars, lowcapVars, storeVars, dispVars, corrVars, workerVars, busVars,
                   fetchVars, rsiVars, failVars>>

\* A worker signals WorkerFailed during the run and _handle_worker_failed
\* publishes AllProcessingCompleted (crypto_analyzer.py:367-379).
WorkerFailedDuringRun ==
    /\ main_pc = "running"
    /\ ~worker_failed
    /\ worker_failed' = TRUE
    /\ main_published' = Append(main_published, "AllProcessingCompleted")
    /\ UNCHANGED <<main_pc, main_config, exit_code, created, analysis_jobs, main_counter,
                   jobVars, seedVars, aggVars, dbVars, decVars, lowcapVars, storeVars, dispVars, corrVars, workerVars, busVars,
                   fetchVars, rsiVars, failVars>>

\* The DisplayAgent publishes DisplayCompleted, once in a session, and
\* _handle_display_completed publishes AllProcessingCompleted
\* (crypto_analyzer.py:381-389).
DisplayCompletedDuringRun ==
    /\ main_pc = "running"
    /\ "DisplayCompleted" \notin Range(main_published)
    /\ main_published' = main_published \o <<"DisplayCompleted", "AllProcessingCompleted">>
    /\ UNCHANGED <<main_pc, main_config, exit_code, created, analysis_jobs, main_counter,
                   worker_failed,
                   jobVars, seedVars, aggVars, dbVars, decVars, lowcapVars, storeVars, dispVars, corrVars, workerVars, busVars,
                   fetchVars, rsiVars, failVars>>

\* AllProcessingCompleted unblocks the wait of run(), the services are
\* stopped and run() returns.
RunReturns ==
    /\ main_pc = "running"
    /\ \E i \in 1..Len(main_published) : main_published[i] = "AllProcessingCompleted"
    /\ main_pc' = "returned"
    /\ UNCHANGED <<main_config, exit_code, created, main_published, analysis_jobs,
                   main_counter, worker_failed,
                   jobVars, seedVars, aggVars, dbVars, decVars, lowcapVars, storeVars, dispVars, corrVars, workerVars, busVars,
                   fetchVars, rsiVars, failVars>>

\* main.py:38: the last statement of the script; the process ends.
MainEnds ==
    /\ main_pc = "returned"
    /\ main_pc' = "exited"
    /\ exit_code' = Some(ExitCodeAfterRun(worker_failed))
    /\ UNCHANGED <<main_config, created, main_published, analysis_jobs, main_counter,
                   worker_failed,
                   jobVars, seedVars, aggVars, dbVars, decVars, lowcapVars, storeVars, dispVars, corrVars, workerVars, busVars,
                   fetchVars, rsiVars, failVars>>

(***************************************************************************)
(* The DisplayAgent (display_agent.py:47-80): a task per FinalResultsReady *)
(* that prints the sorted results and publishes DisplayCompleted.          *)
(***************************************************************************)
\* A result as analyze_correlation builds it (crypto_analyzer.py:329-336):
\* the correlation in tenths, signed, and the market cap.
DisplayResult(coin, correlation, cap) ==
    [coin_id |-> coin, correlation |-> correlation, market_cap |-> cap]

ResultPool ==
    {DisplayResult("a", 9, 20), DisplayResult("b", -9, 10), DisplayResult("c", 7, 10)}

\* The result lists a FinalResultsReady can carry.
ResultLists == UNION {[1..n -> ResultPool] : n \in 0..MaxResults}

AbsValue(x) == IF x < 0 THEN -x ELSE x

\* A key that orders by the signed correlation.
DisplayKey_Signed(r) == <<-r.correlation, r.market_cap>>

\* key=lambda x: (-abs(x.get("correlation", 0)), x.get("market_cap", 0))
\* (display_agent.py:62).
DisplayKey(r) == <<-AbsValue(r.correlation), r.market_cap>>

\* Python's order on the key tuples.
KeyLT(k, l) == k[1] < l[1] \/ (k[1] = l[1] /\ k[2] < l[2])

\* sorted(...) is stable: the place of the i-th result is behind the
\* results of smaller key and behind the earlier results of equal key.
PlaceInSorted(list, i) ==
    1 + Cardinality({j \in 1..Len(list) :
                        \/ KeyLT(DisplayKey(list[j]), DisplayKey(list[i]))
                        \/ (DisplayKey(list[j]) = DisplayKey(list[i]) /\ j < i)})

SortedResults(list) ==
    IF list = <<>> THEN <<>>
    ELSE [p \in 1..Len(list) |->
             list[CHOOSE i \in 1..Len(list) : PlaceInSorted(list, i) = p]]

\* _display_results (display_agent.py:60-80): the rows it prints, in order;
\* none for an empty list.
DisplayedRows(list) == SortedResults(list)

\* _handle_configuration_provided (display_agent.py:36-45).
DisplayConfigurationProvided ==
    /\ disp_session = Nothing
    /\ disp_session' = Some(SessionGuid)
    /\ UNCHANGED <<disp_queue, disp_consumed, disp_displayed, disp_completed,
                   jobVars, seedVars, aggVars, dbVars, decVars, lowcapVars, storeVars, mainVars, corrVars, workerVars,
                   busVars, fetchVars, rsiVars, failVars>>

\* _handle_final_results_ready (display_agent.py:47-53).
HandleFinalResultsReady ==
    /\ disp_consumed < MaxFinalResults
    /\ \E list \in ResultLists : disp_queue' = Append(disp_queue, list)
    /\ disp_consumed' = disp_consumed + 1
    /\ UNCHANGED <<disp_displayed, disp_session, disp_completed,
                   jobVars, seedVars, aggVars, dbVars, decVars, lowcapVars, storeVars, mainVars, corrVars, workerVars,
                   busVars, fetchVars, rsiVars, failVars>>

\* _display_results_and_publish (display_agent.py:55-58), executed by the
\* agent's loop for the oldest task.
DisplayResultsAndPublish ==
    /\ disp_queue # <<>>
    /\ disp_displayed' = Some([results |-> Head(disp_queue),
                                 rows |-> DisplayedRows(Head(disp_queue))])
    /\ disp_completed' = disp_completed + 1
    /\ disp_queue' = Tail(disp_queue)
    /\ UNCHANGED <<disp_consumed, disp_session,
                   jobVars, seedVars, aggVars, dbVars, decVars, lowcapVars, storeVars, mainVars, corrVars, workerVars,
                   busVars, fetchVars, rsiVars, failVars>>

(***************************************************************************)
(* The workers that answer the Orchestrator's requests.                    *)
(***************************************************************************)
\* DataFetcher: one HistoricalPricesFetched per request
\* (data_fetcher.py:89-118, 187-188), with whatever body the wire carries.
FetchHistoricalPrices ==
    \E m \in InFlight("FetchHistoricalPricesRequested"), body \in PriceBodies :
        /\ Consumed(m, SetToBag({Msg("HistoricalPricesFetched", m.coin, m.tf, body)}))
        /\ UNCHANGED <<processing_counter, btc_rsi, coins_to_process,
                       idempotency_tracker, rsi_results, jobCompleted, correlated,
                       decrements, dispatchCount, fetchRequests>>
        /\ UNCHANGED <<seedVars, aggVars, dbVars, extVars>>

\* RSICalculator: one RSICalculated per request (rsi_calculator.py:98-125).
CalculateRSI ==
    \E m \in InFlight("CalculateRSIRequested"), body \in RsiBodies :
        /\ Consumed(m, SetToBag({Msg("RSICalculated", m.coin, m.tf, body)}))
        /\ UNCHANGED <<processing_counter, btc_rsi, coins_to_process,
                       idempotency_tracker, rsi_results, jobCompleted, correlated,
                       decrements, dispatchCount, fetchRequests>>
        /\ UNCHANGED <<seedVars, aggVars, dbVars, extVars>>

\* The seeds are joined and the retained coins dispatched, once: the two seed
\* handlers run one after the other.
Dispatch ==
    /\ dispatchCount = 0
    /\ \E retained \in CoinLists :
          /\ StartAnalysis(retained)
          /\ coins' = Some(retained)
    /\ precision_data' = Some({ETHUSDC, BTCUSDC})
    /\ initial_data_loaded' = TRUE
    /\ seedsReceived' = SeedTopics
    /\ seedsRequested' = SeedTopics
    /\ delivered' = NoMsg
    /\ UNCHANGED <<processing_completed, topCoinsFetched, precisionDataFetched,
                   seedPc>>
    /\ UNCHANGED <<aggVars, dbVars, extVars>>
    /\ UNCHANGED <<btc_rsi, idempotency_tracker, rsi_results, redelivered,
                   jobCompleted, correlated, decrements>>

\* The same dispatch for a retained list of two coins beside bitcoin.
DispatchWide ==
    /\ dispatchCount = 0
    /\ \E retained \in WideCoinLists :
          /\ StartAnalysis(retained)
          /\ coins' = Some(retained)
    /\ precision_data' = Some({ETHUSDC, BTCUSDC})
    /\ initial_data_loaded' = TRUE
    /\ seedsReceived' = SeedTopics
    /\ seedsRequested' = SeedTopics
    /\ delivered' = NoMsg
    /\ UNCHANGED <<processing_completed, topCoinsFetched, precisionDataFetched,
                   seedPc>>
    /\ UNCHANGED <<aggVars, dbVars, extVars>>
    /\ UNCHANGED <<btc_rsi, idempotency_tracker, rsi_results, redelivered,
                   jobCompleted, correlated, decrements>>

(***************************************************************************)
(* Saving the series of several timeframes (database_manager.py:146-168,   *)
(* 190-195, 295-340).                                                      *)
(***************************************************************************)
\* The timeframes whose series are saved, and the frames saved: one row, and
\* two rows of which the first has the same timestamp.
StoreTimeframes == {"1h", "1d"}
StoreFrames == { <<FrameRow(1, 10, "")>>,
                 <<FrameRow(1, 11, ""), FrameRow(2, 20, "")>> }
WriteMethods == {"_save_prices_task", "_save_rsi_task"}

\* save_prices / save_rsi (database_manager.py:190-195) for the series of
\* one timeframe: the task put on the queue is (coin_id_symbol, frame,
\* session_guid); the timeframe of the series is not an argument.
SaveSeries ==
    /\ Len(store_saves) < MaxSaves
    /\ \E method \in WriteMethods, tf \in StoreTimeframes, frame \in StoreFrames :
          /\ store_queue' = Append(store_queue, Task(method, ETH, frame, SessionGuid))
          /\ store_saves' = Append(store_saves,
                                   [method |-> method, timeframe |-> tf, frame |-> frame])
    /\ UNCHANGED <<store_tables, store_done>>
    /\ UNCHANGED <<jobVars, seedVars, aggVars, dbVars, decVars, lowcapVars, corrVars, workerVars, busVars,
                   fetchVars, rsiVars, failVars, mainVars, dispVars>>

\* One turn of the loop of run() on a write task (database_manager.py:78-98,
\* 295-340).
StoreRunTask ==
    /\ store_queue # <<>>
    /\ store_tables' = SaveTask(store_tables, Head(store_queue))
    /\ store_queue' = Tail(store_queue)
    /\ store_done' = store_done + 1
    /\ UNCHANGED store_saves
    /\ UNCHANGED <<jobVars, seedVars, aggVars, dbVars, decVars, lowcapVars, corrVars, workerVars, busVars,
                   fetchVars, rsiVars, failVars, mainVars, dispVars>>

\* The rows of a table with a given coin, timestamp and session.
RowsAt(tabs, method, ts) ==
    {k \in 1..Len(tabs[TableOf(method)].rows) :
        Key(tabs[TableOf(method)].rows[k]) = <<ETH, ts, SessionGuid>>}

\* The timestamps of a frame.
TimestampsOf(frame) == {frame[k].timestamp : k \in 1..Len(frame)}

(***************************************************************************)
(* The low-capitalisation threshold (crypto_analyzer.py:53-54, 161-164) and *)
(* the flag analyze_correlation derives from it (lines 326-338).            *)
(***************************************************************************)
\* A retained coin as CoinGecko describes it.
CapCoin(id, symbol, cap) == [id |-> id, symbol |-> symbol, market_cap |-> cap]

\* The retained coin lists: none, coins without a capitalisation, the caps
\* 10, 20, 30, 40, 100, a coin without a cap beside one with, two coins out
\* of order one of which has an upper-case symbol.
ScenarioCoins ==
    << CapCoin("a", "a", 10), CapCoin("b", "b", 20), CapCoin("c", "c", 30),
       CapCoin("d", "d", 40), CapCoin("e", "e", 100) >>
CapCoinLists ==
    { <<>>,
      << CapCoin("a", "a", 0), CapCoin("b", "b", 0) >>,
      ScenarioCoins,
      << CapCoin("a", "a", 0), CapCoin("b", "b", 10) >>,
      << CapCoin("ethereum", "ETH", 30), CapCoin("a", "a", 10) >> }

\* low_cap_percentile of the session's configuration (configuration.py:12).
Percentiles == {0, 25, 50, 100}

\* str.lower() on the symbols of the model.
Lower(symbol) == IF symbol = "ETH" THEN "eth" ELSE symbol

\* float("inf") (line 54), and a finite threshold held in hundredths.
Infinite == [inf |-> TRUE, x100 |-> 0]
Finite(x100) == [inf |-> FALSE, x100 |-> x100]

\* {c["symbol"].lower(): c.get("market_cap", 0) for c in self.coins}
\* (line 161): the last coin of a symbol wins.
MarketCapsOf(list) ==
    [sym \in {Lower(list[i].symbol) : i \in 1..Len(list)} |->
        list[CHOOSE i \in 1..Len(list) :
                /\ Lower(list[i].symbol) = sym
                /\ \A j \in (i + 1)..Len(list) : Lower(list[j].symbol) # sym].market_cap]

\* [mc for mc in self.market_caps.values() if mc > 0] (line 162), in
\* ascending order as quantile sorts them.
RECURSIVE AscendingCaps(_, _)
AscendingCaps(caps, keys) ==
    IF keys = {} THEN <<>>
    ELSE LET k == CHOOSE x \in keys : \A y \in keys : caps[x] <= caps[y]
         IN  <<caps[k]>> \o AscendingCaps(caps, keys \ {k})

MarketCapValues(caps) == AscendingCaps(caps, {k \in DOMAIN caps : caps[k] > 0})

\* pd.Series(values).quantile(percentile / 100) (line 164), in hundredths:
\* linear interpolation at the position percentile / 100 * (n - 1) of the
\* sorted values.
Quantile(values, percentile) ==
    LET h100 == percentile * (Len(values) - 1)
        lo   == (h100 \div 100) + 1
        frac == h100 % 100
    IN  IF frac = 0 THEN 100 * values[lo]
        ELSE 100 * values[lo] + frac * (values[lo + 1] - values[lo])

\* Lines 161-164: the threshold is only assigned when some cap is positive.
LowCapThresholdOf(caps, percentile, before) ==
    IF MarketCapValues(caps) # <<>>
    THEN Finite(Quantile(MarketCapValues(caps), percentile))
    ELSE before

\* market_cap <= self.low_cap_threshold (line 327).
AtMostThreshold(cap, threshold) == threshold.inf \/ 100 * cap <= threshold.x100

\* self.market_caps.get(coin_id_symbol[1].lower(), 0) (line 326).
MarketCapOf(caps, coin) ==
    IF Lower(coin[2]) \in DOMAIN caps THEN caps[Lower(coin[2])] ELSE 0

\* The result of analyze_correlation (lines 329-336).
CorrelationResult(coin, cap, low, tf) ==
    [coin_id |-> coin[1], coin_symbol |-> coin[2], market_cap |-> cap,
     low_cap_quartile |-> low, timeframe |-> tf]

\* _start_analysis_if_ready, lines 161-164, for the retained coins of the
\* session.
ComputeLowCapThreshold ==
    /\ ~lowcap_started
    /\ \E list \in CapCoinLists, percentile \in Percentiles :
          /\ market_caps' = MarketCapsOf(list)
          /\ lowcap_percentile' = Some(percentile)
          /\ low_cap_threshold' =
                LowCapThresholdOf(MarketCapsOf(list), percentile, low_cap_threshold)
    /\ lowcap_started' = TRUE
    /\ UNCHANGED <<lowcap_results, lowcap_calls>>
    /\ UNCHANGED <<jobVars, seedVars, aggVars, dbVars, decVars, corrVars, workerVars, busVars,
                   fetchVars, rsiVars, failVars, mainVars, dispVars, storeVars>>

\* A call of analyze_correlation (lines 310-338) for a retained coin, or
\* for a pair that is not among the retained coins.
AnalyzeLowCap ==
    /\ lowcap_started
    /\ lowcap_calls < MaxLowCapCalls
    /\ \E coin \in {<<k, k>> : k \in DOMAIN market_caps}
                     \cup {<<"ethereum", "ETH">>, <<"other", "zzz">>},
          coin_rsi \in {"up", "flat"} :
          lowcap_results' =
             IF analyze_correlation(coin_rsi, "up")
             THEN Append(lowcap_results,
                         CorrelationResult(coin, MarketCapOf(market_caps, coin),
                             AtMostThreshold(MarketCapOf(market_caps, coin),
                                             low_cap_threshold), "1d"))
             ELSE lowcap_results
    /\ lowcap_calls' = lowcap_calls + 1
    /\ UNCHANGED <<market_caps, low_cap_threshold, lowcap_percentile, lowcap_started>>
    /\ UNCHANGED <<jobVars, seedVars, aggVars, dbVars, decVars, corrVars, workerVars, busVars,
                   fetchVars, rsiVars, failVars, mainVars, dispVars, storeVars>>

(***************************************************************************)
(* decrement_counter (analysis_job.py:29-62) statement by statement, run   *)
(* by two threads of the bus on the job of the retained list [ethereum].   *)
(***************************************************************************)
\* A thread is handed an outcome event of the timeframe and enters
\* decrement_counter (crypto_analyzer.py:300-305, analysis_job.py:37-41).
EnterDecrement ==
    /\ Len(dec_deliveries) < MaxDeliveries
    /\ \E t \in SeedThreads, coin \in CoinPool :
          /\ dec_pc[t] = "idle"
          /\ dec_pc' = [dec_pc EXCEPT ![t] = "check"]
          /\ dec_event' = [dec_event EXCEPT ![t] = Some(coin)]
          /\ dec_deliveries' = Append(dec_deliveries, coin)
    /\ UNCHANGED <<dec_tracker, dec_counter, counter_lock, dec_count, dec_completed>>
    /\ UNCHANGED <<jobVars, seedVars, aggVars, dbVars, corrVars, workerVars, busVars, fetchVars, rsiVars, failVars, mainVars, dispVars, storeVars, lowcapVars>>

\* `if self._idempotency_tracker.is_duplicate(event_data): return`
\* (lines 45-49), outside the lock.
CheckDuplicate ==
    /\ \E t \in SeedThreads :
          /\ dec_pc[t] = "check"
          /\ dec_pc' = [dec_pc EXCEPT ![t] =
                IF is_duplicate(dec_tracker, Fingerprint("1d", dec_event[t][1]))
                THEN "idle" ELSE "mark"]
    /\ UNCHANGED <<dec_event, dec_tracker, dec_counter, counter_lock, dec_count,
                   dec_completed, dec_deliveries>>
    /\ UNCHANGED <<jobVars, seedVars, aggVars, dbVars, corrVars, workerVars, busVars, fetchVars, rsiVars, failVars, mainVars, dispVars, storeVars, lowcapVars>>

\* `self._idempotency_tracker.mark_processed(event_data)` (line 52), outside
\* the lock.
MarkProcessed ==
    /\ \E t \in SeedThreads :
          /\ dec_pc[t] = "mark"
          /\ dec_tracker' = mark_processed(dec_tracker, Fingerprint("1d", dec_event[t][1]))
          /\ dec_pc' = [dec_pc EXCEPT ![t] = "acquire"]
    /\ UNCHANGED <<dec_event, dec_counter, counter_lock, dec_count, dec_completed,
                   dec_deliveries>>
    /\ UNCHANGED <<jobVars, seedVars, aggVars, dbVars, corrVars, workerVars, busVars, fetchVars, rsiVars, failVars, mainVars, dispVars, storeVars, lowcapVars>>

\* `with self._counter_lock:` (line 54).
AcquireCounterLock ==
    /\ counter_lock = Nothing
    /\ \E t \in SeedThreads :
          /\ dec_pc[t] = "acquire"
          /\ counter_lock' = Some(t)
          /\ dec_pc' = [dec_pc EXCEPT ![t] = "locked"]
    /\ UNCHANGED <<dec_event, dec_tracker, dec_counter, dec_count, dec_completed,
                   dec_deliveries>>
    /\ UNCHANGED <<jobVars, seedVars, aggVars, dbVars, corrVars, workerVars, busVars, fetchVars, rsiVars, failVars, mainVars, dispVars, storeVars, lowcapVars>>

\* The body of the with block (lines 55-62): the decrement, the correlation
\* pass when the counter is exhausted, and the release of the lock.
DecrementUnderLock ==
    /\ \E t \in SeedThreads :
          /\ dec_pc[t] = "locked" /\ counter_lock = Some(t)
          /\ dec_counter' = dec_counter - 1
          /\ dec_count' = [dec_count EXCEPT ![dec_event[t][1]] = @ + 1]
          /\ dec_completed' =
                IF CounterExhausted(dec_counter - 1)
                THEN dec_completed + CompletionsPerPass(None) ELSE dec_completed
          /\ counter_lock' = Nothing
          /\ dec_pc' = [dec_pc EXCEPT ![t] = "idle"]
    /\ UNCHANGED <<dec_event, dec_tracker, dec_deliveries>>
    /\ UNCHANGED <<jobVars, seedVars, aggVars, dbVars, corrVars, workerVars, busVars, fetchVars, rsiVars, failVars, mainVars, dispVars, storeVars, lowcapVars>>

(***************************************************************************)
(* Specifications.                                                         *)
(***************************************************************************)
Init ==
    /\ processing_counter = [tf \in JobTimeframes |-> 0]
    /\ btc_rsi = [tf \in JobTimeframes |-> None]
    /\ coins_to_process = [tf \in JobTimeframes |-> <<>>]
    /\ idempotency_tracker = [tf \in JobTimeframes |-> <<>>]
    /\ rsi_results = [k \in AllCoins \X JobTimeframes |-> None]
    /\ bus = EmptyBag
    /\ redelivered = 0
    /\ delivered = NoMsg
    /\ jobCompleted = [tf \in JobTimeframes |-> 0]
    /\ correlated = [tf \in JobTimeframes |-> {}]
    /\ decrements = [tf \in JobTimeframes |-> [c \in AllCoins |-> 0]]
    /\ dispatchCount = 0
    /\ fetchRequests = <<>>
    /\ coins = Nothing
    /\ precision_data = Nothing
    /\ initial_data_loaded = FALSE
    /\ processing_completed = FALSE
    /\ topCoinsFetched = {}
    /\ precisionDataFetched = {}
    /\ seedPc = [t \in SeedThreads |-> "idle"]
    /\ seedsReceived = {}
    /\ seedsRequested = {}
    /\ job_completion_counter = Len(ConfigTimeframes)
    /\ results = <<>>
    /\ aggBus = EmptyBag
    /\ completedJobs = {}
    /\ completionsHandled = 0
    /\ finalResultsReady = <<>>
    /\ work_queue = <<>>
    /\ db_running = TRUE
    /\ dbPc = "loop"
    /\ conn = "open"
    /\ tables = [t \in TableNames |-> EmptyTable]
    /\ stopPc = "running"
    /\ tasksEnqueued = 0
    /\ executedTasks = {}
    /\ tasksExecuted = 0
    /\ connAccess = Accesses(LoopThread, "run")
    /\ corr_call = Nothing
    /\ corr_published = <<>>
    /\ corr_calls = 0
    /\ queues = [w \in WorkerNames |-> <<>>]
    /\ running = [w \in WorkerNames |-> TRUE]
    /\ loopPc = [w \in WorkerNames |-> "while"]
    /\ current = [w \in WorkerNames |-> {}]
    /\ executed = [w \in WorkerNames |-> <<>>]
    /\ puts = [w \in WorkerNames |-> 0]
    /\ stopping = [w \in WorkerNames |-> "none"]
    /\ inbox = <<>>
    /\ received = 0
    /\ cursor = 1
    /\ invoked = <<>>
    /\ escaped = <<>>
    /\ logged = {}
    /\ dispatched = {}
    /\ clientAlive = TRUE
    /\ df_task = Nothing
    /\ df_markets = Nothing
    /\ df_prices_published = <<>>
    /\ df_top_published = <<>>
    /\ df_ohlcv_calls = 0
    /\ df_raised = <<>>
    /\ df_last = Nothing
    /\ df_tasks = 0
    /\ rsi_periods = Nothing
    /\ rsi_queue = <<>>
    /\ rsi_published = <<>>
    /\ rsi_log = <<>>
    /\ rsi_requests = 0
    /\ wf_pending = 0
    /\ wf_published = 0
    /\ wf_handled = <<>>
    /\ mainPc = "waiting"
    /\ main_pc = "start"
    /\ main_config = Nothing
    /\ exit_code = Nothing
    /\ created = {}
    /\ main_published = <<>>
    /\ analysis_jobs = {}
    /\ main_counter = 0
    /\ worker_failed = FALSE
    /\ disp_queue = <<>>
    /\ disp_consumed = 0
    /\ disp_displayed = Nothing
    /\ disp_session = Nothing
    /\ disp_completed = 0
    /\ store_queue = <<>>
    /\ store_tables = [t \in TableNames |-> EmptyTable]
    /\ store_saves = <<>>
    /\ store_done = 0
    /\ market_caps = <<>>
    /\ low_cap_threshold = Infinite
    /\ lowcap_percentile = Nothing
    /\ lowcap_started = FALSE
    /\ lowcap_results = <<>>
    /\ lowcap_calls = 0
    /\ dec_pc = [t \in SeedThreads |-> "idle"]
    /\ dec_event = [t \in SeedThreads |-> Nothing]
    /\ dec_tracker = <<>>
    /\ dec_counter = Len(set_coins_to_process(<<ETH>>)) + 1
    /\ counter_lock = Nothing
    /\ dec_count = [c \in CoinPool |-> 0]
    /\ dec_completed = 0
    /\ dec_deliveries = <<>>
    /\ putsAtStop = [w \in WorkerNames |-> Nothing]

NextJob ==
    \/ Dispatch
    \/ FetchHistoricalPrices
    \/ HandleHistoricalPricesFetched
    \/ CalculateRSI
    \/ HandleRSICalculated
    \/ HandleCoinProcessingFailed

SpecJob == Init /\ [][NextJob]_vars

\* The job of a session whose retained list is a wide one.
NextQuorum ==
    \/ DispatchWide
    \/ FetchHistoricalPrices
    \/ HandleHistoricalPricesFetched
    \/ CalculateRSI
    \/ HandleRSICalculated
    \/ HandleCoinProcessingFailed

SpecQuorum == Init /\ [][NextQuorum]_vars

NextSeed ==
    \/ FetchTopCoins
    \/ FetchPrecisionData
    \/ ReceiveTopCoins
    \/ ReceivePrecisionData
    \/ CheckInitialDataLoaded
    \/ CheckInitialData
    \/ SetInitialDataLoaded
    \/ FilterAndDispatch

SpecSeed == Init /\ [][NextSeed]_vars

\* A seed handler that has started goes on to its checks.
FairSpecSeed ==
    SpecSeed /\ WF_vars(CheckInitialDataLoaded) /\ WF_vars(CheckInitialData)

NextAgg ==
    \/ PublishJobResults
    \/ HandleCorrelationAnalyzed
    \/ HandleAnalysisJobCompleted

SpecAgg == Init /\ [][NextAgg]_vars

\* The Database Manager: producers, the loop thread and the shutdown.
NextDB ==
    \/ save_prices
    \/ save_rsi
    \/ get_prices
    \/ RunTask
    \/ RunSentinel
    \/ Close
    \/ StopServices
    \/ WaitForQueueCompletion
    \/ WaitTimedOut
    \/ stop
    \/ Join

SpecDB == Init /\ [][NextDB]_vars

\* analyze_correlation on its own.
NextCorr == AnalyzeCorrelation

SpecCorr == Init /\ [][NextCorr]_vars

\* The workers' loops, their producers and stop().
NextWorker ==
    \/ PutTask
    \/ LoopWhile
    \/ GetTask
    \/ GetTimeout
    \/ TaskDone
    \/ StopClearRunning
    \/ StopPut
    \/ StopJoin

SpecWorker == Init /\ [][NextWorker]_vars

\* The service bus and the broker client.
NextBus ==
    \/ ClientReceive
    \/ ClientCallHandler

SpecBus == Init /\ [][NextBus]_vars

\* The DataFetcher's tasks.
NextFetcher ==
    \/ StartHistoricalPricesTask
    \/ AttemptHistoricalPrices
    \/ StartTopCoinsTask
    \/ AttemptTopCoinsPage

SpecFetcher == Init /\ [][NextFetcher]_vars

\* The RSICalculator's task.
NextRsi ==
    \/ HandleConfigurationProvided
    \/ HandleCalculateRSIRequested
    \/ CalculateRsiTask

SpecRsi == Init /\ [][NextRsi]_vars

\* The Orchestrator's workflow with workers that can fail: the seeds, then
\* the jobs' reports, WorkerFailed at any moment, and the main wait.
NextFailure ==
    \/ (NextSeed /\ DeliveredOnce)
    \/ (JobsRunning /\ NextAgg /\ DeliveredOnce)
    \/ PublishWorkerFailed
    \/ HandleWorkerFailed
    \/ MainWaitReturns

SpecFailure == Init /\ [][NextFailure]_vars

\* The bus delivers every event it holds and the main thread runs.
FairSpecFailure ==
    SpecFailure /\ WF_vars(HandleWorkerFailed) /\ WF_vars(MainWaitReturns)

\* The program from its start to its exit.
NextMain ==
    \/ LoadConfig
    \/ ConstructAnalyzer
    \/ RunStarts
    \/ WorkerFailedDuringRun
    \/ DisplayCompletedDuringRun
    \/ RunReturns
    \/ MainEnds

SpecMain == Init /\ [][NextMain]_vars

\* The DisplayAgent.
NextDisplay ==
    \/ DisplayConfigurationProvided
    \/ HandleFinalResultsReady
    \/ DisplayResultsAndPublish

SpecDisplay == Init /\ [][NextDisplay]_vars

\* The agent's loop runs while it has a task.
FairSpecDisplay == SpecDisplay /\ WF_vars(DisplayResultsAndPublish)

NextStore ==
    \/ SaveSeries
    \/ StoreRunTask

SpecStore == Init /\ [][NextStore]_vars

NextLowCap ==
    \/ ComputeLowCapThreshold
    \/ AnalyzeLowCap

SpecLowCap == Init /\ [][NextLowCap]_vars

NextDecrement ==
    \/ EnterDecrement
    \/ CheckDuplicate
    \/ MarkProcessed
    \/ AcquireCounterLock
    \/ DecrementUnderLock

SpecDecrement == Init /\ [][NextDecrement]_vars

(***************************************************************************)
(* Properties of the job pipeline (SpecJob).                               *)
(***************************************************************************)
\* Every request of the timeframe has produced its outcome and every outcome
\* has been handled: nothing of the timeframe is in flight any more.
Quiescent(tf) == dispatchCount > 0 /\ \A m \in BagToSet(bus) : m.tf # tf

\* C1: for every timeframe the job has published AnalysisJobCompleted exactly
\* once as soon as its counter is exhausted, and never before, whatever
\* outcome events (duplicates, late events, a raising correlation pass) it
\* has been given.
C1_CompletedExactlyOnce ==
    \A tf \in JobTimeframes :
        jobCompleted[tf] =
            IF dispatchCount > 0 /\ CounterExhausted(processing_counter[tf])
            THEN 1 ELSE 0

\* C2: for a fixed coin and timeframe the counter is decremented at most once,
\* however many duplicate outcomes arrive and whatever is processed in between.
C2_DecrementedAtMostOnce ==
    \A tf \in JobTimeframes : \A c \in CoinPool : decrements[tf][c] <= 1

\* C3: when every FetchHistoricalPricesRequested of a timeframe has yielded
\* its outcome and every outcome has been handled, AnalysisJobCompleted has
\* been published for that timeframe.
C3_CompletedWhenQuiescent ==
    \A tf \in JobTimeframes : Quiescent(tf) => jobCompleted[tf] >= 1

\* The bodies of HistoricalPricesFetched that are null, empty or cannot be
\* deserialised.
BadPriceBodies == {None, "", "garbage", "emptyframe"}

\* The pair is requested once for the timeframe.
RequestedOnce(coin, tf) ==
    LET requests == RequestsFor(tf, coins_to_process[tf])
    IN  Cardinality({i \in 1..Len(requests) : requests[i].coin = coin}) = 1

\* C9: handling a HistoricalPricesFetched whose body is null, empty or
\* undeserialisable publishes one CoinProcessingFailed for its coin and
\* timeframe and no CalculateRSIRequested; and once that failure has been
\* handled (the pair requested once, each event delivered once), the counter
\* has been decremented exactly once for that coin.
C9_PerCoinFailure ==
    [][/\ (delivered'.topic = "HistoricalPricesFetched"
            /\ delivered'.body \in BadPriceBodies)
          => LET failed == Msg("CoinProcessingFailed", delivered'.coin, delivered'.tf, None)
                 rsi    == Msg("CalculateRSIRequested", delivered'.coin, delivered'.tf, "closes")
             IN  /\ CopiesIn(failed, bus') = CopiesIn(failed, bus) + 1
                 /\ CopiesIn(rsi, bus') = CopiesIn(rsi, bus)
       /\ (/\ delivered'.topic = "CoinProcessingFailed"
           /\ redelivered' = 0
           /\ RequestedOnce(delivered'.coin, delivered'.tf))
          => /\ decrements'[delivered'.tf][delivered'.coin] = 1
             /\ processing_counter[delivered'.tf] - processing_counter'[delivered'.tf]
                   = decrements'[delivered'.tf][delivered'.coin]
                       - decrements[delivered'.tf][delivered'.coin]
      ]_vars

\* A failed price fetch of a coin has been turned into CoinProcessingFailed,
\* handled, and counted once.
C9_Witness ==
    /\ delivered.topic = "CoinProcessingFailed"
    /\ delivered.coin = ETH
    /\ redelivered = 0
    /\ RequestedOnce(ETH, delivered.tf)
    /\ decrements[delivered.tf][ETH] = 1
    /\ rsi_results[<<ETH, delivered.tf>>] = None

\* C10: a decrement that exhausts the counter while btc_rsi is missing
\* publishes AnalysisJobCompleted for the timeframe and no CorrelationAnalyzed.
C10_DegradedCompletion ==
    [][\A tf \in JobTimeframes :
          (/\ processing_counter'[tf] < processing_counter[tf]
           /\ CounterExhausted(processing_counter'[tf])
           /\ btc_rsi'[tf] = None)
          => /\ jobCompleted'[tf] = jobCompleted[tf] + 1
             /\ correlated'[tf] = correlated[tf]
      ]_vars

\* The job completed without bitcoin's RSI although a coin's RSI was stored.
C10_Witness ==
    \E tf \in JobTimeframes :
        /\ btc_rsi[tf] = None
        /\ decrements[tf][BTC] = 1
        /\ rsi_results[<<ETH, tf>>] = "up"
        /\ CounterExhausted(processing_counter[tf])
        /\ jobCompleted[tf] = 1
        /\ correlated[tf] = {}

(***************************************************************************)
(* Properties of the seed join (SpecSeed).                                 *)
(***************************************************************************)
\* C4: no FetchHistoricalPricesRequested is published, no job counter is
\* initialised and the dispatch is not entered (the initial-data flag is not
\* set) before both TopCoinsFetched and PrecisionDataFetched have been
\* received, whichever seed arrives first.
C4_SeedJoin ==
    (\/ fetchRequests # <<>>
     \/ \E tf \in JobTimeframes : processing_counter[tf] # 0
     \/ dispatchCount > 0
     \/ initial_data_loaded)
    => seedsReceived = SeedTopics

\* One seed has arrived alone, its handler has returned, nothing is dispatched.
C4_Witness ==
    /\ seedsReceived = {"TopCoinsFetched"}
    /\ coins # Nothing
    /\ Len(coins[1]) > 0
    /\ \A t \in SeedThreads : seedPc[t] = "idle"
    /\ topCoinsFetched = {}
    /\ fetchRequests = <<>>

\* C5: the dispatch loop is executed at most once per session, also when the
\* two seed handlers run on different threads or a seed is delivered again.
C5_DispatchAtMostOnce == dispatchCount <= 1

(***************************************************************************)
(* Properties of the aggregation (SpecAgg).                                *)
(***************************************************************************)
\* C6: every AnalysisJobCompleted handled decrements the pending-jobs counter
\* by one; FinalResultsReady is published by the completion that brings the
\* counter to 0 and by none that leaves it positive, hence never after fewer
\* completions than there are configured timeframes and, each completion
\* being delivered once, only after the job of every timeframe has completed.
C6_Aggregation ==
    /\ [](Len(finalResultsReady) > 0
            => /\ completionsHandled >= Len(ConfigTimeframes)
               /\ redelivered = 0 => completedJobs = Range(ConfigTimeframes))
    /\ [][completionsHandled' # completionsHandled
            => /\ job_completion_counter' = job_completion_counter - 1
               /\ job_completion_counter' = 0
                    => Len(finalResultsReady') = Len(finalResultsReady) + 1
               /\ job_completion_counter' > 0
                    => finalResultsReady' = finalResultsReady
         ]_vars

\* Both jobs have completed, both completions have been handled once, and
\* FinalResultsReady has been published.
C6_Witness ==
    /\ completedJobs = Range(ConfigTimeframes)
    /\ completionsHandled = Len(ConfigTimeframes)
    /\ redelivered = 0
    /\ job_completion_counter = 0
    /\ Len(finalResultsReady) = 1

\* C7 -- Drain on shutdown: at the step that closes the SQLite connection
\* the Database Manager's work queue is empty, so every write task that
\* was enqueued has been executed before close().
C7_DrainedAtClose ==
    [][ (conn = "open" /\ conn' = "closed") => work_queue = <<>> ]_vars

\* C8 -- DB idempotency: when the loop executes a write task it has
\* executed before (same method, coin, session and rows), the prices and
\* rsi tables, committed and pending rows alike, are left as they were.
C8_ReplayIdempotent ==
    [][ (tasksExecuted' = tasksExecuted + 1 /\ Head(work_queue) \in executedTasks)
            => tables' = tables ]_vars

\* A prices write and an RSI write of two rows each are committed, and one
\* of the two has been executed a second time.
C8_Witness ==
    LET two == <<FrameRow(1, 10, ""), FrameRow(2, 20, "")>>
    IN  /\ tasksExecuted = 3
        /\ executedTasks = { Task("_save_prices_task", ETH, two, SessionGuid),
                             Task("_save_rsi_task", ETH, two, SessionGuid) }
        /\ \A t \in TableNames :
              Len(tables[t].rows) = 2 /\ tables[t].committed = 2

\* The timestamps two RSI series have in common.
CommonIndex(x, y) == DOMAIN x \cap DOMAIN y

\* Pearson's rho of two series over their common index, from the deviations
\* from the mean (scaled by the number n of points): whether it is a number
\* at all, and whether its absolute value reaches num/den.
RhoIsFinite(x, y) ==
    LET I  == CommonIndex(x, y)
        n  == Cardinality(I)
        dx == [t \in I |-> n * x[t] - SumOver(I, x)]
        dy == [t \in I |-> n * y[t] - SumOver(I, y)]
    IN  /\ n >= 2
        /\ \E t \in I : dx[t] # 0
        /\ \E t \in I : dy[t] # 0

AbsRhoAtLeast(x, y, num, den) ==
    LET I   == CommonIndex(x, y)
        n   == Cardinality(I)
        dx  == [t \in I |-> n * x[t] - SumOver(I, x)]
        dy  == [t \in I |-> n * y[t] - SumOver(I, y)]
        sxy == SumOver(I, [t \in I |-> dx[t] * dy[t]])
        sxx == SumOver(I, [t \in I |-> dx[t] * dx[t]])
        syy == SumOver(I, [t \in I |-> dy[t] * dy[t]])
    IN  den * den * sxy * sxy >= num * num * sxx * syy

\* C11 -- Correlation emission: a call of analyze_correlation publishes one
\* CorrelationAnalyzed for its coin and timeframe if the common index of the
\* two series has at least rsi_period timestamps, rho is a number and
\* |rho| >= correlation_threshold, and publishes nothing otherwise.
C11_CorrelationEmission ==
    [][ corr_calls' = corr_calls + 1 =>
          LET c == corr_call'[1]
              x == SeriesOf(c.coin_rsi)
              y == SeriesOf(c.btc_rsi)
          IN  IF /\ Cardinality(CommonIndex(x, y)) >= config.rsi_period
                 /\ RhoIsFinite(x, y)
                 /\ AbsRhoAtLeast(x, y, config.threshold_num, config.threshold_den)
              THEN corr_published' =
                     Append(corr_published, [coin |-> c.coin, timeframe |-> c.timeframe])
              ELSE corr_published' = corr_published ]_vars

\* A call has published its CorrelationAnalyzed, and a later call whose
\* coin series is constant (rho is not a number) has published nothing.
C11_Witness ==
    /\ corr_calls = 2
    /\ Len(corr_published) = 1
    /\ corr_call[1].coin_rsi = "flat"
    /\ corr_call[1].btc_rsi = "up"

\* C12 -- Worker invariant: each worker executes at most one task at any
\* time, and the tasks it has taken are the first ones put on its queue, in
\* the order they were put, whichever threads put them.
C12_WorkerInvariant ==
    \A w \in WorkerNames :
        /\ Cardinality(current[w]) <= 1
        /\ \A i \in 1..Len(executed[w]) : executed[w][i].ticket = i
        /\ \A t \in current[w] : t.ticket = Len(executed[w]) + 1

\* The DatabaseManager has executed two tasks that different threads put on
\* its queue, and has been stopped.
C12_Witness ==
    LET done == executed["DatabaseManager"]
    IN  /\ Len(done) = 2
        /\ done[1].by = "bus" /\ done[2].by = "main"
        /\ stopping["DatabaseManager"] = "stopped"

\* C13 -- Single writer: every use of the SQLite connection (connect, table
\* creation, insert, select, commit, close) is made by the Database
\* Manager's loop thread; the threads that call save_* / get_* / stop only
\* put tasks on the queue.
C13_SingleWriter == \A a \in connAccess : a.thread = LoopThread

\* A write and a read that were put on the queue have been executed, and
\* the connection has been closed: every kind of use has occurred.
C13_Witness ==
    /\ conn = "closed"
    /\ \E t \in executedTasks : t.method = "_save_prices_task" /\ t.frame # <<>>
    /\ \E t \in executedTasks : t.method = "_get_prices_task"
    /\ {a.op : a \in connAccess} = {"connect", "cursor", "execute", "commit", "fetchall", "close"}

\* The calls of a subscriber made with a message.
CallsOf(h, m) == {i \in 1..Len(invoked) : invoked[i].handler = h /\ invoked[i].message = m}

\* C14 -- Service bus failure isolation: an exception raised by a subscriber
\* never leaves the bus; it is logged, the client goes on listening, and
\* every message that passes validation and that the client has offered to
\* the handlers of its topic has reached each subscriber of the topic once,
\* whatever the other subscribers and the earlier messages raised.
C14_FailureIsolation ==
    /\ [](\A i \in 1..Len(escaped) : escaped[i].where # "subscriber")
    /\ [](\A m \in dispatched :
            InternalHandler(m.topic, m.payload, "returns").called
              => \A k \in 1..Len(Subscribers(m.topic)) :
                    Cardinality(CallsOf(Subscribers(m.topic)[k], m)) = 1)
    /\ [][ (Len(invoked') = Len(invoked) + 1 /\ invoked'[Len(invoked')].raised)
              => /\ clientAlive'
                 /\ escaped' = escaped
                 /\ logged' # logged ]_vars

\* The first subscriber of RSICalculated raised on the first message, the
\* second subscriber received that message, and both received the next.
C14_Witness ==
    LET m1 == BusMessage(1, "RSICalculated", "valid")
        m2 == BusMessage(2, "RSICalculated", "valid")
    IN  /\ dispatched = {m1, m2}
        /\ Len(invoked) = 4
        /\ invoked[1].raised /\ ~invoked[2].raised
        /\ invoked[2].message = m1

\* C15 -- Service bus validation: for a payload that fails the schema of
\* its topic (not a mapping, a missing, extra or wrongly typed field) no
\* subscriber is called and no exception leaves _internal_handler.
C15_InvalidPayloadDropped ==
    /\ escaped = <<>>
    /\ \A i \in 1..Len(invoked) :
          HasSchema(invoked[i].message.topic) => invoked[i].message.payload = "valid"


\* A step that is one attempt of the historical prices task.
IsPricesAttempt ==
    /\ df_task # Nothing
    /\ df_task[1].kind = "_fetch_historical_prices_task"
    /\ df_task' # df_task

\* C16: a transient network error raised while fetching historical prices
\* is retried inside the DataFetcher, up to three attempts in all: an
\* attempt before the third that met a NetworkError publishes nothing and
\* is followed by another attempt of the same task, and a null-bodied
\* HistoricalPricesFetched after a NetworkError comes only from the third.
C16_TransientRetried ==
    [][ (IsPricesAttempt /\ df_last'[1].caught = "NetworkError")
          => IF df_last'[1].attempt < StopAfterAttempt
             THEN /\ df_prices_published' = df_prices_published
                  /\ df_task' = Some([df_task[1] EXCEPT !.attempt = @ + 1])
             ELSE /\ df_task' = Nothing
                  /\ df_prices_published' =
                       Append(df_prices_published,
                              Msg("HistoricalPricesFetched", df_task[1].coin,
                                  df_task[1].timeframe, None)) ]_vars

\* C17: when SYMBOL/USDC is not in the exchange's market list, the attempt
\* does not call fetch_ohlcv, publishes HistoricalPricesFetched with a null
\* body for that coin and timeframe, and ends the task at once: no further
\* attempt, no exception.
C17_MissingSymbol ==
    [][ (/\ IsPricesAttempt
         /\ df_markets' # Nothing
         /\ PairSymbol(df_task[1].coin) \notin df_markets'[1])
          => /\ df_ohlcv_calls' = df_ohlcv_calls
             /\ df_prices_published' =
                  Append(df_prices_published,
                         Msg("HistoricalPricesFetched", df_task[1].coin,
                             df_task[1].timeframe, None))
             /\ df_task' = Nothing
             /\ df_raised' = df_raised ]_vars

\* C17 witness: two tasks for the unlisted coin ran, the first loading the
\* markets; each published its null-bodied event on its first attempt and
\* fetch_ohlcv was never called.
C17_Witness ==
    /\ df_tasks = 2
    /\ df_task = Nothing
    /\ df_markets = Some(ExchangeMarkets)
    /\ df_ohlcv_calls = 0
    /\ df_raised = <<>>
    /\ df_last # Nothing
    /\ df_last[1] = [coin |-> FAKE, timeframe |-> "1d", attempt |-> 1, fetches |-> FALSE,
                     caught |-> None, raises |-> None]
    /\ df_prices_published = << Msg("HistoricalPricesFetched", FAKE, "1d", None),
                                Msg("HistoricalPricesFetched", FAKE, "1d", None) >>

\* C18: whatever the coin-list API does on whatever page, a top coins task
\* that ends has published exactly one TopCoinsFetched, holding the coins
\* collected from the pages before the failure, at most n of them.
C18_TopCoinsAlwaysReported ==
    [][ (/\ df_task # Nothing
         /\ df_task[1].kind = "_fetch_top_coins_task"
         /\ df_task' = Nothing)
          => /\ Len(df_top_published') = Len(df_top_published) + 1
             /\ LET e == df_top_published'[Len(df_top_published')]
                IN  /\ Len(e.coins) <= df_task[1].n
                    /\ e.coins = FirstN(df_last'[1].collected, df_task[1].n) ]_vars


C20_WorkerFailedEndsSession ==
    /\ [][ wf_handled' # wf_handled => processing_completed' ]_vars
    /\ [](wf_handled # <<>> => processing_completed)
    /\ (wf_pending > 0) ~> (mainPc = "shutdown")

\* C20 witness: two WorkerFailed were handled, one during the dispatch and
\* one while the display was awaited, and the main thread is in shutdown.
C20_Witness ==
    /\ wf_handled = <<"dispatching", "awaiting_display">>
    /\ wf_pending = 0
    /\ processing_completed
    /\ mainPc = "shutdown"


\* C21: the process exits with 0 when AllProcessingCompleted is reached
\* normally, and with 1 when a worker signalled WorkerFailed before the
\* shutdown.
C21_ExitCode ==
    (main_pc = "exited" /\ created # {})
        => exit_code = Some(IF worker_failed THEN 1 ELSE 0)

\* The constraints of a configuration, as the claim states them.
ConfigurationValid(c) ==
    /\ c.weeks >= 1
    /\ c.top_n_coins >= 1
    /\ c.correlation_threshold \in 0..10
    /\ c.rsi_period >= 2
    /\ c.low_cap_percentile \in 0..100

\* C22: an invalid configuration makes the program exit with code 1 with
\* nothing constructed (no bus, no Orchestrator, no worker) and no event
\* published.
C22_InvalidConfigExits ==
    (main_config # Nothing /\ ~ConfigurationValid(main_config[1]))
        => /\ main_pc = "exited"
           /\ exit_code = Some(1)
           /\ created = {}
           /\ main_published = <<>>

\* C22 witness: the program was given correlation_threshold = 1.5 with every
\* other field valid, and has exited with 1.
C22_Witness ==
    /\ main_config # Nothing
    /\ main_config[1].correlation_threshold = 15
    /\ main_config[1].weeks = 50
    /\ main_config[1].top_n_coins = 500
    /\ main_config[1].rsi_period = 14
    /\ main_config[1].low_cap_percentile = 25
    /\ main_pc = "exited"
    /\ exit_code = Some(1)
    /\ created = {}


\* C26: once the Orchestrator is constructed, whatever the configured
\* timeframes (a repeated label included), there is one AnalysisJob per
\* configured timeframe and the job-completion counter equals the number of
\* jobs.
C26_JobsAndCounter ==
    "CryptoAnalyzer" \in created
        => /\ analysis_jobs = Range(main_config[1].timeframes)
           /\ main_counter = Cardinality(analysis_jobs)


\* The rows are in display order: decreasing |correlation| and, for equal
\* |correlation|, increasing market cap.
InDisplayOrder(rows) ==
    \A i \in 1..Len(rows) - 1 :
        LET a == rows[i]
            b == rows[i + 1]
            ca == IF a.correlation < 0 THEN -a.correlation ELSE a.correlation
            cb == IF b.correlation < 0 THEN -b.correlation ELSE b.correlation
        IN  ca > cb \/ (ca = cb /\ a.market_cap <= b.market_cap)

\* C23: every FinalResultsReady the DisplayAgent consumed is followed by
\* exactly one DisplayCompleted, whatever its result list (the empty list
\* included), published in the step that has printed its rows, all of them,
\* by decreasing |correlation| and, for ties, increasing market cap.
C23_DisplayCompleted ==
    /\ [](disp_completed + Len(disp_queue) = disp_consumed)
    /\ [][ disp_completed' # disp_completed
             => /\ disp_completed' = disp_completed + 1
                /\ disp_queue # <<>> /\ disp_queue' = Tail(disp_queue)
                /\ disp_displayed'[1].results = Head(disp_queue)
                /\ BagOfSeq(disp_displayed'[1].rows) = BagOfSeq(Head(disp_queue))
                /\ InDisplayOrder(disp_displayed'[1].rows) ]_vars
    /\ (disp_queue # <<>>) ~> (disp_queue = <<>>)

\* C23 witness: a list with a negative correlation and a tie has been
\* displayed, strongest first and the tie by market cap, and its
\* DisplayCompleted published.
C23_Witness ==
    /\ disp_completed = 1
    /\ disp_queue = <<>>
    /\ disp_displayed =
         Some([results |-> << DisplayResult("c", 7, 10), DisplayResult("a", 9, 20),
                              DisplayResult("b", -9, 10) >>,
               rows    |-> << DisplayResult("b", -9, 10), DisplayResult("a", 9, 20),
                              DisplayResult("c", 7, 10) >>])


\* C24: price and RSI rows are keyed by (coin_id, timestamp, session_guid,
\* timeframe): once two series of the same coin and session have been
\* written under two different timeframes, every timestamp they share has
\* a row of each in the table.
C24_BothTimeframesStored ==
    \A i, j \in 1..store_done :
        (/\ i < j
         /\ store_saves[i].method = store_saves[j].method
         /\ store_saves[i].timeframe # store_saves[j].timeframe)
        => \A ts \in TimestampsOf(store_saves[i].frame)
                       \cap TimestampsOf(store_saves[j].frame) :
               Cardinality(RowsAt(store_tables, store_saves[i].method, ts)) >= 2

\* C25: every worker task queue is bounded: a put lengthens a queue only
\* within a fixed positive capacity, a producer that finds the queue full
\* being held back.
C25_QueuesBounded ==
    [][\A w \in {"DatabaseManager", "RSICalculator"} :
          Len(queues'[w]) > Len(queues[w])
          => (QueueMaxsize > 0 /\ Len(queues'[w]) <= QueueMaxsize)]_vars

\* C27: when a task computes an RSI series, every position whose window of
\* `period` deltas has no loss is kept in the published series, with the
\* value 100.
C27_NoLossIsHundred ==
    [][ rsi_log' # rsi_log
          => LET t == Head(rsi_queue)
                 e == rsi_published'[Len(rsi_published')]
             IN  (rsi_periods # Nothing /\ ~InsufficientData(t.data, rsi_periods[1]))
                 => \A i \in (rsi_periods[1] + 1)..Len(t.data[1]) :
                       WindowLoss(t.data[1], i, rsi_periods[1]) = 0
                       => /\ e.rsi_series_json # Nothing
                          /\ \E k \in 1..Len(e.rsi_series_json[1]) :
                                /\ e.rsi_series_json[1][k].at = i
                                /\ e.rsi_series_json[1][k].den > 0
                                /\ e.rsi_series_json[1][k].num
                                      = 100 * e.rsi_series_json[1][k].den ]_vars

\* C28: if no retained coin has a positive market cap, the low-cap
\* threshold is +infinity and no result of the session is flagged
\* low_cap_quartile.
C28_NoPositiveCapsNoLowCap ==
    (lowcap_started /\ \A k \in DOMAIN market_caps : market_caps[k] <= 0)
    => /\ low_cap_threshold = Infinite
       /\ \A i \in 1..Len(lowcap_results) : ~lowcap_results[i].low_cap_quartile

\* C29: with the retained caps 10, 20, 30, 40, 100 and percentile 25 the
\* threshold is 17.5 and a result is flagged low_cap_quartile exactly when
\* its coin is the one of cap 10.
C29_LowCapScenario ==
    (lowcap_started /\ market_caps = MarketCapsOf(ScenarioCoins)
                    /\ lowcap_percentile = Some(25))
    => /\ low_cap_threshold = Finite(1750)
       /\ \A i \in 1..Len(lowcap_results) :
             lowcap_results[i].low_cap_quartile <=> lowcap_results[i].market_cap = 10

\* C30: AnalysisJobCompleted is published for a timeframe only after
\* bitcoin and every coin of the job's coins_to_process have each had an
\* outcome accounted for by a decrement of the counter.
C30_Quorum ==
    \A tf \in JobTimeframes :
        jobCompleted[tf] > 0
        => \A c \in {BTC} \cup Range(coins_to_process[tf]) : decrements[tf][c] >= 1

\* C31: the results of a FinalResultsReady contain the result of every
\* CorrelationAnalyzed the jobs have published, whatever the order in which
\* the bus delivers CorrelationAnalyzed and AnalysisJobCompleted.
C31_ResultsComplete ==
    \A i \in 1..Len(finalResultsReady) :
        \A m \in BagToSet(aggBus) :
            m.topic = "CorrelationAnalyzed"
            => <<m.coin, m.timeframe>> \in Range(finalResultsReady[i])

\* C32: the duplicate check, the mark and the decrement of a job are one
\* atomic step: while every outcome event delivered so far is for the same
\* (coin, timeframe), on whatever threads, the counter has been decremented
\* at most once for it.
C32_AtomicDecrement ==
    \A c \in CoinPool :
        (\A i \in 1..Len(dec_deliveries) : dec_deliveries[i] = c) => dec_count[c] <= 1

\* C33: FinalResultsReady is published at most once per session, whatever
\* number of AnalysisJobCompleted events is delivered.
C33_FinalResultsOnce == Len(finalResultsReady) <= 1

\* C34: for every retained coin list, one with a repeated pair included,
\* the counter of a job is exhausted once every request published for its
\* timeframe has produced its outcome and every outcome has been handled.
C34_CounterMatchesRequests ==
    \A tf \in JobTimeframes :
        Quiescent(tf) => CounterExhausted(processing_counter[tf])

\* C35: every execution of a historical prices task publishes exactly one
\* HistoricalPricesFetched for the coin and timeframe of its request and
\* ends the task, whether the fetch succeeds, the symbol is missing, the
\* exchange returns no rows or a call raises: nothing is published twice,
\* nothing leaves the task and no second attempt is made.
C35_OneFetchedPerRequest ==
    [][ IsPricesAttempt
          => /\ \E body \in {None, "frame"} :
                   df_prices_published' =
                      Append(df_prices_published,
                             Msg("HistoricalPricesFetched", df_task[1].coin,
                                 df_task[1].timeframe, body))
             /\ df_task' = Nothing
             /\ df_raised' = df_raised ]_vars

\* C35 witness: two tasks for ethereum ran; the first fetched rows and
\* published a frame, the second met an exchange error in fetch_ohlcv and
\* published a null body.
C35_Witness ==
    /\ df_prices_published = << Msg("HistoricalPricesFetched", ETH, "1d", "frame"),
                                Msg("HistoricalPricesFetched", ETH, "1d", None) >>
    /\ df_task = Nothing
    /\ df_raised = <<>>
    /\ df_last # Nothing
    /\ df_last[1].caught = "ExchangeError" /\ df_last[1].fetches

\* The requests published so far for a timeframe, in publication order.
RequestsOf(tf) == SelectSeq(fetchRequests, LAMBDA m : m.tf = tf)

\* C36: nothing is requested before the dispatch; after it, the requests
\* of a timeframe are |coins_to_process| + 1 in number, the first for
\* bitcoin and the others for the coins of the job, in their order.
C36_DispatchOrder ==
    \A tf \in JobTimeframes :
        IF dispatchCount = 0 THEN RequestsOf(tf) = <<>>
        ELSE /\ Len(RequestsOf(tf)) = Len(coins_to_process[tf]) + 1
             /\ RequestsOf(tf)[1].coin = BTC
             /\ \A i \in 1..Len(coins_to_process[tf]) :
                   /\ ~IsBtcSymbol(coins_to_process[tf][i])
                   /\ i + 1 <= Len(RequestsOf(tf))
                      => RequestsOf(tf)[i + 1].coin = coins_to_process[tf][i]

\* Both seeds have been received, the analysis has not started, and the
\* coin list or the precision list is empty.
EmptySeedReceived ==
    /\ coins # Nothing /\ precision_data # Nothing
    /\ ~initial_data_loaded
    /\ (Len(coins[1]) = 0 \/ precision_data[1] = {})

\* C37: with both seeds received and one of them empty, the check of
\* _start_analysis_if_ready sets the processing-completed signal and
\* returns; no request has been or is published, the jobs stay
\* uninitialised, and the signal does get set.
C37_EmptySeedsStop ==
    /\ [](EmptySeedReceived
            => /\ fetchRequests = <<>>
               /\ dispatchCount = 0
               /\ \A tf \in JobTimeframes :
                     processing_counter[tf] = 0 /\ coins_to_process[tf] = <<>>)
    /\ [][\A t \in SeedThreads :
             (EmptySeedReceived /\ seedPc[t] = "check" /\ seedPc'[t] # "check")
             => /\ processing_completed'
                /\ seedPc'[t] = "idle"
                /\ ~initial_data_loaded'
                /\ fetchRequests' = <<>>]_vars
    /\ (EmptySeedReceived /\ seedsReceived = SeedTopics) ~> processing_completed

\* C37 witness: a coin list and an empty precision list have been received,
\* the handlers have returned, the signal is set and nothing was requested.
C37_Witness ==
    /\ coins # Nothing /\ Len(coins[1]) > 0
    /\ precision_data = Some({})
    /\ \A t \in SeedThreads : seedPc[t] = "idle"
    /\ processing_completed
    /\ ~initial_data_loaded
    /\ fetchRequests = <<>>
    /\ dispatchCount = 0

\* C38: when the loop of the RSICalculator has exited, every calculation
\* task that was put on its queue before stop() was called has been
\* executed.
C38_RsiDrainOnStop ==
    (loopPc["RSICalculator"] = "exited" /\ putsAtStop["RSICalculator"] # Nothing)
    => \A n \in 1..putsAtStop["RSICalculator"][1] :
          \E i \in 1..Len(executed["RSICalculator"]) :
              executed["RSICalculator"][i].ticket = n

\* C39: a write task that fails part-way leaves nothing that becomes
\* persistent: a failing task commits nothing, and the rows a step makes
\* persistent in a table are the rows that step inserted into it, never
\* rows left behind by an earlier task that failed.
C39_FailedWriteLeavesNothing ==
    [][\A t \in TableNames :
          /\ tasksExecuted' # tasksExecuted
                /\ Head(work_queue).method \in {"_save_prices_task", "_save_rsi_task"}
                /\ InsertRows(tables[TableOf(Head(work_queue).method)].rows,
                              Head(work_queue), Head(work_queue).frame).raised
             => tables'[t].committed = tables[t].committed
          /\ tables'[t].committed > tables[t].committed
             => tables'[t].committed - tables[t].committed
                   = Len(tables'[t].rows) - Len(tables[t].rows)]_vars

\* C40: every get_prices call returns to its caller: once the loop of the
\* Database Manager has exited, no _get_prices_task is left on the queue
\* with its caller waiting for a result that nothing will ever produce.
C40_GetPricesReturns ==
    dbPc = "exited"
    => \A i \in 1..Len(work_queue) : work_queue[i].method # "_get_prices_task"
====
